---- MODULE Spec2Model ----
(***************************************************************************)
(* Pack calculator: the dynamic-programming solver (package calculator)    *)
(* and the in-memory LRU result cache (package cache).                     *)
(***************************************************************************)
EXTENDS Integers, Sequences, FiniteSets, TLC

VARIABLES
    amount,      \* argument of Calculate / CalculateWithDetails
    input,       \* the caller's packSizes slice handed to NewCalculator
    calc,        \* the Calculator built from it (its packSizes field)
    res,         \* what the solver call returned
    spc,         \* position of the solver scenario
    run,         \* two goroutines in Calculate at once: each one's locals
    tables,      \* ... and the dp and parent slices each call allocated
    items,       \* MemoryCache.items: key -> cacheItem
    nodes,       \* the lruNode objects, by address
    head,        \* MemoryCache.head (most recently used), Nil when empty
    tail,        \* MemoryCache.tail (least recently used)
    maxSize,     \* MemoryCache.maxSize
    hits,        \* MemoryCache.hits
    misses,      \* MemoryCache.misses
    now,         \* time.Now()
    touched,     \* history: the keys by their latest Set or Get hit, newest first
    gets,        \* history: the Get calls that have returned, all and since the last Clear
    thr,         \* goroutines inside Get: each one's position and locals
    req,         \* HTTP requests in service: each handler's position and locals
    store,       \* table pack_sizes: the set of sizes
    journal,     \* table orders: the rows SaveOrder has inserted
    replies,     \* history: the responses sent, oldest first
    caller,      \* the cache's caller: its map[int]int objects, what its Get returned
    limiter,     \* the RateLimiter: its visitors, the calls of Allow, its clock
    listing,     \* the GetOrders requests: each one's limit parameter and query
    mu           \* MemoryCache.mu: who holds it, who waits for it, each caller's position

solverVars == <<amount, input, calc, res, spc>>
runVars == <<run, tables>>
cacheVars == <<items, nodes, head, tail, maxSize, hits, misses, now, touched, gets, thr>>
serverVars == <<req, store, journal, replies>>
outerVars == <<caller, limiter, listing, mu>>

vars == <<solverVars, runVars, cacheVars, serverVars, outerVars>>

(***************************************************************************)
(* Bounds of the solver inputs.                                            *)
(***************************************************************************)
MaxAmount == 10
MaxPack == 5
MaxLen == 3

\* ... and of the two concurrent calls
RunMaxAmount == 5
RunMaxPack == 3
RunMaxLen == 2

\* ... and of the cache: keys, capacity, clock (in hours), Get calls, and the
\* lruNode objects the heap has room for
NumKeys == 3
MaxCap == 2
MaxTime == 2
MaxGets == 2
MaxNodes == 4

\* ... and of what one client stores: the keys, the results and the lifetimes
\* (in hours)
MaxEntries == 2
MaxPayload == 2
MaxTTL == 1
MaxMaps == 2

\* ... and of the keys the goroutines contend for when the lock is explicit
MaxContended == 1

\* ... and of the rate limiter: the client addresses, the burst, the rate and
\* the clock (in ticks of 50 ms), and the requests
NumClients == 2
MaxBurst == 2
RateTicks == 2
MaxTicks == 5
MaxCalls == 4

\* ... and of the arguments of GenerateCacheKey
KeyMaxAmount == 2
KeyMaxPack == 12
KeyMaxLen == 2

\* ... and of the requests: the small amounts, the pack sizes, the number of
\* requests served
MaxOrder == 3
MaxSize == 2
MaxRequests == 3

\* ... and of the inputs with several optimal solutions: four distinct sizes
TieMaxAmount == 11
TieMaxPack == 7
TieLen == 4

\* math.MaxInt32, the "impossible state" mark of dp
MaxInt32 == 2147483647

ErrNone == "nil"
ErrAmount == "amount must be positive"
ErrNoPacks == "no pack sizes available"
ErrNoCombination == "no valid pack combination found"

\* a nil map[int]int: no keys
NilMap == <<>>

SeqsUpTo(S, n) == UNION {[1..k -> S] : k \in 0..n}

(***************************************************************************)
(* sort.Ints: ascending insertion of every element.                        *)
(***************************************************************************)
RECURSIVE InsertSorted(_, _)
InsertSorted(x, s) ==
    IF s = <<>> THEN <<x>>
    ELSE IF x <= Head(s) THEN <<x>> \o s
    ELSE <<Head(s)>> \o InsertSorted(x, Tail(s))

RECURSIVE SortInts(_)
SortInts(s) == IF s = <<>> THEN <<>> ELSE InsertSorted(Head(s), SortInts(Tail(s)))

\* NewCalculator: copies the slice and sorts the copy
NewCalculator(packSizes) == [packSizes |-> SortInts(packSizes)]

(***************************************************************************)
(* A []int of n+1 cells, as make([]int, n+1) returns it, filled with v. The *)
(* cells are kept in pages, so that an assignment rebuilds one page and    *)
(* not the whole slice.                                                    *)
(***************************************************************************)
PageOf(i) == i \div 1024
SlotOf(i) == i % 1024

\* s[i]
At(s, i) == s[PageOf(i)][SlotOf(i)]

\* s[i] = v
Put(s, i, v) == [s EXCEPT ![PageOf(i)][SlotOf(i)] = v]

\* the comparisons make TLC build the pages once, as arrays
Alloc(n, v) ==
    LET page == [o \in 0..SlotOf(IF PageOf(n) = 0 THEN n ELSE 1023) |-> v]
        all == [p \in 0..PageOf(n) |-> IF page = page THEN page ELSE page]
    IN IF all = all THEN all ELSE all

(***************************************************************************)
(* Calculate, phase by phase.                                              *)
(***************************************************************************)
\* as Improves, but only a total not reached before is recorded
ImprovesUnreached(dpNext, dpI) == dpNext = MaxInt32

\* as Improves, a recorded choice replaced by a later one of equal pack count
ImprovesOrTies(dpNext, dpI) == dpNext >= dpI + 1

\* the relaxation test of the inner loop
Improves(dpNext, dpI) == dpNext > dpI + 1

\* for _, packSize := range c.packSizes { ... } at one i, from index k on
RECURSIVE RelaxPacks(_, _, _, _, _)
RelaxPacks(st, i, maxTarget, packSizes, k) ==
    IF k > Len(packSizes) THEN st
    ELSE LET packSize == packSizes[k]
             next == i + packSize
             st2 == IF next <= maxTarget /\ Improves(At(st.dp, next), At(st.dp, i))
                    THEN [dp |-> Put(st.dp, next, At(st.dp, i) + 1),
                          parent |-> Put(st.parent, next, packSize)]
                    ELSE st
         IN RelaxPacks(st2, i, maxTarget, packSizes, k + 1)

\* one iteration of the outer loop
RelaxAt(st, i, maxTarget, packSizes) ==
    IF At(st.dp, i) = MaxInt32 THEN st
    ELSE RelaxPacks(st, i, maxTarget, packSizes, 1)

\* for i := lo; i <= hi; i++ { ... }: the iterations lo..hi in ascending order
RECURSIVE RelaxRange(_, _, _, _, _)
RelaxRange(st, lo, hi, maxTarget, packSizes) ==
    IF lo > hi THEN st
    ELSE IF lo = hi THEN RelaxAt(st, lo, maxTarget, packSizes)
    ELSE LET mid == (lo + hi) \div 2
             done == RelaxRange(st, lo, mid, maxTarget, packSizes)
         IN \* the test only makes the first half be computed before the second
            IF DOMAIN done.dp = {} THEN done
            ELSE RelaxRange(done, mid + 1, hi, maxTarget, packSizes)

\* as InitTables, without the base case dp[0] = 0
InitTablesNoBase(maxTarget) ==
    [dp |-> Alloc(maxTarget, MaxInt32),
     parent |-> Alloc(maxTarget, 0)]

\* dp and parent as allocated: dp all MaxInt32 but dp[0] = 0, parent all 0
InitTables(maxTarget) ==
    [dp |-> Put(Alloc(maxTarget, MaxInt32), 0, 0),
     parent |-> Alloc(maxTarget, 0)]

\* as FindBest with the break left out: the last reachable total wins
RECURSIVE FindLast(_, _, _)
FindLast(dp, lo, hi) ==
    IF lo > hi THEN -1
    ELSE IF lo = hi THEN (IF At(dp, lo) # MaxInt32 THEN lo ELSE -1)
    ELSE LET mid == (lo + hi) \div 2
             later == FindLast(dp, mid + 1, hi)
         IN IF later # -1 THEN later ELSE FindLast(dp, lo, mid)

\* for i := lo; i <= hi; i++ { if dp[i] != math.MaxInt32 { bestTotal = i; break } }
\* the first reachable total of lo..hi; -1 when none
RECURSIVE FindBest(_, _, _)
FindBest(dp, lo, hi) ==
    IF lo > hi THEN -1
    ELSE IF lo = hi THEN (IF At(dp, lo) # MaxInt32 THEN lo ELSE -1)
    ELSE LET mid == (lo + hi) \div 2
             first == FindBest(dp, lo, mid)
         IN IF first # -1 THEN first ELSE FindBest(dp, mid + 1, hi)

\* as Incr, with = 1 in place of ++
IncrOnce(packs, key) ==
    [k \in DOMAIN packs \cup {key} |-> IF k = key THEN 1 ELSE packs[k]]

\* packs[packUsed]++ on a Go map
Incr(packs, key) ==
    IF key \in DOMAIN packs
    THEN [packs EXCEPT ![key] = @ + 1]
    ELSE [k \in DOMAIN packs \cup {key} |-> IF k = key THEN 1 ELSE packs[k]]

\* packUsed := parent[current]; packs[packUsed]++; current -= packUsed
BacktrackStep(parent, bt) ==
    LET packUsed == At(parent, bt.current)
    IN [packs |-> Incr(bt.packs, packUsed), current |-> bt.current - packUsed]

\* for current > 0 { ... }, up to n iterations of it
RECURSIVE BacktrackUpTo(_, _, _)
BacktrackUpTo(parent, bt, n) ==
    IF n = 0 \/ ~(bt.current > 0) THEN bt
    ELSE IF n = 1 THEN BacktrackStep(parent, bt)
    ELSE LET half == BacktrackUpTo(parent, bt, n \div 2)
         IN IF half.current > 0 THEN BacktrackUpTo(parent, half, n - n \div 2)
            ELSE half

\* the whole loop: it ends within `current` iterations when every step takes a
\* pack of 1 or more off; a loop that would not end is left with current > 0
Backtrack(parent, current, packs) ==
    BacktrackUpTo(parent, [packs |-> packs, current |-> current], current)

\* as MaxTarget, with the amount left out: the horizon is the largest pack size
MaxTargetShort(amt, packSizes) == packSizes[Len(packSizes)]

\* as MaxTarget, without the largest pack size added
MaxTargetExact(amt, packSizes) == amt

\* the search horizon: amount + the largest (last, the sizes being sorted) pack size
MaxTarget(amt, packSizes) == amt + packSizes[Len(packSizes)]

\* as InvalidAmount, with < for <=
InvalidAmountStrict(amt) == amt < 0

\* the two argument checks, in the code's order
InvalidAmount(amt) == amt <= 0
NoPackSizes(c) == Len(c.packSizes) = 0

Failure(e) == [packs |-> NilMap, total |-> 0, err |-> e, rem |-> 0]

Calculate(c, amt) ==
    IF InvalidAmount(amt) THEN Failure(ErrAmount)
    ELSE IF NoPackSizes(c) THEN Failure(ErrNoPacks)
    ELSE LET maxTarget == MaxTarget(amt, c.packSizes)
             st == RelaxRange(InitTables(maxTarget), 0, maxTarget, maxTarget, c.packSizes)
             bestTotal == FindBest(st.dp, amt, maxTarget)
         IN IF bestTotal = -1
            THEN Failure(ErrNoCombination)
            ELSE LET bt == Backtrack(st.parent, bestTotal, NilMap)
                 IN [packs |-> bt.packs, total |-> bestTotal, err |-> ErrNone,
                     rem |-> bt.current]

\* the orders in which a range over a map with these keys may visit them
Orders(keys) ==
    {o \in [1..Cardinality(keys) -> keys] : \A a, b \in DOMAIN o : a # b => o[a] # o[b]}

\* for _, count := range packs { totalPacks += count }, the keys visited in this order
RECURSIVE CountPacks(_, _, _)
CountPacks(packs, order, totalPacks) ==
    IF order = <<>> THEN totalPacks
    ELSE CountPacks(packs, Tail(order), totalPacks + packs[Head(order)])

\* CalculateWithDetails, given what Calculate returned and the range order
WithDetails(r, order) ==
    IF r.err # ErrNone
    THEN [packs |-> NilMap, total |-> 0, totalPacks |-> 0, err |-> r.err, rem |-> r.rem]
    ELSE [packs |-> r.packs, total |-> r.total,
          totalPacks |-> CountPacks(r.packs, order, 0), err |-> ErrNone, rem |-> r.rem]

\* what CalculateWithDetails may return: one result for each order of the range
CalculateWithDetails(c, amt) ==
    LET r == Calculate(c, amt)
    IN {WithDetails(r, order) : order \in Orders(DOMAIN r.packs)}

(***************************************************************************)
(* MemoryCache: a map of items and a doubly linked recency chain of nodes. *)
(***************************************************************************)
\* the ttl the callers pass: 1*time.Hour
TTL == 1

Nil == 0
Keys == 1..NumKeys
NodeIds == 1..MaxNodes

\* an lruNode nothing refers to
FreeNode == [key |-> Nil, prev |-> Nil, next |-> Nil]

\* NewMemoryCache(size): an empty map, head and tail nil, counters 0
NewMemoryCache(size) ==
    /\ items = <<>>
    /\ nodes = [n \in NodeIds |-> FreeNode]
    /\ head = Nil
    /\ tail = Nil
    /\ maxSize = size
    /\ hits = 0
    /\ misses = 0

\* the goroutines that may be inside a cache call or a handler at once
Procs == {1, 2}

\* a goroutine outside Get
NoThread == [pc |-> "idle", key |-> Nil, node |-> Nil, packs |-> Nil, total |-> Nil, at |-> 0]

NoThreads ==
    /\ thr = [t \in Procs |-> NoThread]
    /\ gets = [all |-> 0, since |-> 0]

NoCache ==
    /\ NewMemoryCache(0)
    /\ now = 0
    /\ touched = <<>>
    /\ NoThreads

\* the chain as the methods see it
TheChain == [nodes |-> nodes, head |-> head, tail |-> tail]

\* addToFront
addToFront(L, node) ==
    LET n1 == [L.nodes EXCEPT ![node].next = L.head, ![node].prev = Nil]
        n2 == IF L.head # Nil THEN [n1 EXCEPT ![L.head].prev = node] ELSE n1
    IN [nodes |-> n2, head |-> node, tail |-> IF L.tail = Nil THEN node ELSE L.tail]

\* removeNode
removeNode(L, node) ==
    LET L1 == IF L.nodes[node].prev # Nil
              THEN [L EXCEPT !.nodes[L.nodes[node].prev].next = L.nodes[node].next]
              ELSE [L EXCEPT !.head = L.nodes[node].next]
    IN IF L1.nodes[node].next # Nil
       THEN [L1 EXCEPT !.nodes[L1.nodes[node].next].prev = L1.nodes[node].prev]
       ELSE [L1 EXCEPT !.tail = L1.nodes[node].prev]

\* as moveToFront, the node left where it is
moveToFrontNot(L, node) == L

\* moveToFront
moveToFront(L, node) ==
    IF node = L.head THEN L
    ELSE addToFront(removeNode(L, node), node)

\* a map without one key: delete(c.items, key)
Without(m, key) == [k \in DOMAIN m \ {key} |-> m[k]]

\* a map with one key set: c.items[key] = item
With(m, key, item) == [k \in DOMAIN m \cup {key} |-> IF k = key THEN item ELSE m[k]]

\* as evictLRU, the head removed in place of the tail
evictMRU(C) ==
    IF C.chain.tail = Nil THEN C
    ELSE [chain |-> removeNode(C.chain, C.chain.head),
          items |-> Without(C.items, C.chain.nodes[C.chain.head].key)]

\* evictLRU, on the map and the chain
evictLRU(C) ==
    IF C.chain.tail = Nil THEN C
    ELSE [chain |-> removeNode(C.chain, C.chain.tail),
          items |-> Without(C.items, C.chain.nodes[C.chain.tail].key)]

\* len(c.items) >= c.maxSize
AtMaxSize(n) == n >= maxSize

\* the nodes a goroutine inside Get still points to: its local item.node
Held(threads) == {threads[t].node : t \in Procs} \ {Nil}

\* the nodes reachable from a set of nodes by prev and next
RECURSIVE Reach(_, _)
Reach(ns, from) ==
    LET more == (from \cup {ns[n].prev : n \in from} \cup {ns[n].next : n \in from}) \ {Nil}
    IN IF more = from THEN from ELSE Reach(ns, more)

\* the nodes the program can still reach: from the items, from head and tail, and
\* from the locals of the goroutines; the others are garbage
Live(C, held) ==
    Reach(C.chain.nodes,
          ({C.items[k].node : k \in DOMAIN C.items} \cup {C.chain.head, C.chain.tail}
               \cup held) \ {Nil})

Collect(C, held) ==
    [n \in NodeIds |-> IF n \in Live(C, held) THEN C.chain.nodes[n] ELSE FreeNode]

\* &lruNode{key: key}: an address not in use
NewNode(C, held) == CHOOSE n \in NodeIds : n \notin Live(C, held)

\* the history of touches: key is the newest
Touch(seq, key) == <<key>> \o SelectSeq(seq, LAMBDA k : k # key)

\* the map and the chain a method leaves behind
Install(C, held) ==
    /\ items' = C.items
    /\ nodes' = Collect(C, held)
    /\ head' = C.chain.head
    /\ tail' = C.chain.tail

\* one more Get has returned
Returned1(g) == [all |-> g.all + 1, since |-> g.since + 1]

\* the Get calls begun so far
Begun == gets.all + Cardinality({t \in Procs : thr[t].pc # "idle"})

\* as Absent, an item taken as expired from its expiration instant on
AbsentEarly(key) == key \notin DOMAIN items \/ now >= items[key].expiration

\* !exists || time.Now().After(item.expiration)
Absent(key) == key \notin DOMAIN items \/ now > items[key].expiration

\* what Get(key) returns: nil, 0, false or item.packs, item.total, true
GetResult(key) ==
    IF Absent(key) THEN [packs |-> Nil, total |-> 0, found |-> FALSE]
    ELSE [packs |-> items[key].packs, total |-> items[key].total, found |-> TRUE]

\* Get(key), with no other call between its three sections
Get(key) ==
    /\ Begun < MaxGets
    /\ IF Absent(key)
       THEN /\ misses' = misses + 1
            /\ UNCHANGED <<items, nodes, head, tail, hits, touched>>
       ELSE /\ hits' = hits + 1
            /\ Install([items |-> items, chain |-> moveToFront(TheChain, items[key].node)],
                       Held(thr))
            /\ touched' = Touch(touched, key)
            /\ UNCHANGED misses
    /\ gets' = Returned1(gets)
    /\ UNCHANGED <<maxSize, now, thr>>

\* Get(key), first section: the lookup under the shared lock
GetLookup(t, key) ==
    /\ thr[t].pc = "idle"
    /\ Begun < MaxGets
    /\ thr' = [thr EXCEPT ![t] = IF Absent(key)
                                 THEN [NoThread EXCEPT !.pc = "missed", !.key = key,
                                                       !.at = now]
                                 ELSE [pc |-> "found", key |-> key,
                                       node |-> items[key].node,
                                       packs |-> items[key].packs,
                                       total |-> items[key].total, at |-> now]]
    /\ UNCHANGED <<items, nodes, head, tail, maxSize, hits, misses, now, touched, gets>>

\* Get(key), second section: the atomic add to misses or hits, no lock held
GetCount(t) ==
    /\ thr[t].pc \in {"missed", "found"}
    /\ IF thr[t].pc = "missed"
       THEN /\ misses' = misses + 1
            /\ gets' = Returned1(gets)
            /\ thr' = [thr EXCEPT ![t] = NoThread]
            /\ UNCHANGED hits
       ELSE /\ hits' = hits + 1
            /\ thr' = [thr EXCEPT ![t].pc = "promote"]
            /\ UNCHANGED <<misses, gets>>
    /\ UNCHANGED <<items, nodes, head, tail, maxSize, now, touched>>

\* Get(key), third section: moveToFront(item.node) under the exclusive lock
GetPromote(t) ==
    /\ thr[t].pc = "promote"
    /\ thr' = [thr EXCEPT ![t] = NoThread]
    /\ Install([items |-> items, chain |-> moveToFront(TheChain, thr[t].node)],
               Held(thr'))
    /\ touched' = Touch(touched, thr[t].key)
    /\ gets' = Returned1(gets)
    /\ UNCHANGED <<maxSize, hits, misses, now>>

\* the heap has room for one more node
Room == Live([items |-> items, chain |-> TheChain], Held(thr)) # NodeIds

\* Set(key, packs, total, ttl): the whole method under the exclusive lock
Set(key, packs, total, ttl) ==
    /\ Room
    /\ IF key \in DOMAIN items
       THEN /\ Install([items |-> [items EXCEPT ![key].packs = packs,
                                                ![key].total = total,
                                                ![key].expiration = now + ttl],
                        chain |-> moveToFront(TheChain, items[key].node)],
                       Held(thr))
       ELSE LET C0 == [items |-> items, chain |-> TheChain]
                C1 == IF AtMaxSize(Cardinality(DOMAIN items)) THEN evictLRU(C0) ELSE C0
                node == NewNode(C1, Held(thr))
                item == [packs |-> packs, total |-> total, expiration |-> now + ttl,
                         node |-> node]
                fresh == [C1.chain EXCEPT !.nodes[node] = [FreeNode EXCEPT !.key = key]]
            IN Install([items |-> With(C1.items, key, item),
                        chain |-> addToFront(fresh, node)],
                       Held(thr))
    /\ touched' = Touch(touched, key)
    /\ UNCHANGED <<maxSize, hits, misses, now, gets, thr>>

\* as Clear, the counters left as they are
ClearEntries ==
    /\ Install([items |-> <<>>, chain |-> [nodes |-> nodes, head |-> Nil, tail |-> Nil]],
               Held(thr))
    /\ touched' = <<>>
    /\ gets' = [gets EXCEPT !.since = 0]
    /\ UNCHANGED <<maxSize, hits, misses, now, thr>>

\* as Clear, the map and the chain left as they are
ClearCounters ==
    /\ hits' = 0
    /\ misses' = 0
    /\ gets' = [gets EXCEPT !.since = 0]
    /\ UNCHANGED <<items, nodes, head, tail, touched, maxSize, now, thr>>

\* Clear(): the whole method under the exclusive lock
Clear ==
    /\ Install([items |-> <<>>, chain |-> [nodes |-> nodes, head |-> Nil, tail |-> Nil]],
               Held(thr))
    /\ hits' = 0
    /\ misses' = 0
    /\ touched' = <<>>
    /\ gets' = [gets EXCEPT !.since = 0]
    /\ UNCHANGED <<maxSize, now, thr>>

\* Stats(), the hit ratio as the pair it is the quotient of
Stats ==
    [Hits |-> hits, Misses |-> misses,
     HitRatio |-> IF hits + misses > 0 THEN <<hits, hits + misses>> ELSE <<0, 1>>,
     Size |-> Cardinality(DOMAIN items)]

\* the clock moves on between two calls
Tick ==
    /\ now < MaxTime
    /\ now' = now + 1
    /\ UNCHANGED <<items, nodes, head, tail, maxSize, hits, misses, touched, gets, thr>>

(***************************************************************************)
(* GenerateCacheKey: strings are sequences of characters.                  *)
(***************************************************************************)
Digits == <<"0", "1", "2", "3", "4", "5", "6", "7", "8", "9">>

\* strconv.Itoa
RECURSIVE Itoa(_)
Itoa(n) ==
    IF n < 0 THEN <<"-">> \o Itoa(-n)
    ELSE IF n < 10 THEN <<Digits[n + 1]>>
    ELSE Itoa(n \div 10) \o <<Digits[(n % 10) + 1]>>

\* as Joined, the sizes written one after the other with nothing in between
RECURSIVE JoinedBare(_, _)
JoinedBare(packSizes, i) ==
    IF i > Len(packSizes) THEN <<>>
    ELSE Itoa(packSizes[i]) \o JoinedBare(packSizes, i + 1)

\* the loop of GenerateCacheKey from index i on: a comma before every size but
\* the first, the sizes in the order of the slice
RECURSIVE Joined(_, _)
Joined(packSizes, i) ==
    IF i > Len(packSizes) THEN <<>>
    ELSE (IF i > 1 THEN <<",">> ELSE <<>>) \o Itoa(packSizes[i])
             \o Joined(packSizes, i + 1)

\* as GenerateCacheKey, the key made of the amount alone
GenerateCacheKeyOfAmount(amt, packSizes) ==
    <<"c", "a", "l", "c", ":">> \o Itoa(amt) \o <<":">>

\* GenerateCacheKey(amount, packSizes)
GenerateCacheKey(amt, packSizes) ==
    <<"c", "a", "l", "c", ":">> \o Itoa(amt) \o <<":">> \o Joined(packSizes, 1)

(***************************************************************************)
(* The server's state: the requests in service, the pack-size table and    *)
(* the orders table.                                                       *)
(***************************************************************************)
\* a goroutine serving no request
NoRequest ==
    [pc |-> "idle", kind |-> "none", amount |-> 0, size |-> 0, packSizes |-> <<>>,
     key |-> <<>>, packs |-> <<>>, total |-> 0, totalPacks |-> 0,
     hits0 |-> 0, misses0 |-> 0]

NoServer ==
    /\ req = [c \in Procs |-> NoRequest]
    /\ store = {}
    /\ journal = <<>>
    /\ replies = <<>>

\* NewRateLimiter(rate, burst): no visitor yet, no call of Allow in progress
NoCall == [pc |-> "idle", ip |-> Nil, visitor |-> Nil]

NewRateLimiter(rate, burst) ==
    [rate |-> rate, burst |-> burst, visitors |-> <<>>, objects |-> <<>>,
     calls |-> [p \in Procs |-> NoCall], clock |-> 0, log |-> <<>>]

\* a GetOrders request not yet received
NoListing == [pc |-> "idle", limitStr |-> <<>>, limit |-> 0]

\* a caller of the cache that has allocated no map and called no Get
NoGot == [key |-> Nil, ret |-> [packs |-> Nil, total |-> 0, found |-> FALSE]]

NoCaller == [maps |-> <<>>, got |-> NoGot]

\* a goroutine in no method of the cache
NoMethod == [pc |-> "idle", key |-> Nil]

\* the zero sync.RWMutex: held by nobody, nobody waiting
NoLock ==
    [readers |-> {}, writer |-> Nil, waiting |-> {}, calls |-> [t \in Procs |-> NoMethod]]

\* no map allocated by a caller, the limiter just built, no GetOrders request,
\* the lock of the cache free
NoOuter ==
    /\ caller = NoCaller
    /\ limiter = NewRateLimiter(1, 1)
    /\ listing = [c \in Procs |-> NoListing]
    /\ mu = NoLock

\* a step of the cache's client alone
CacheOnly == UNCHANGED <<solverVars, runVars, serverVars, outerVars>>

(***************************************************************************)
(* The solver called once: NewCalculator, then Calculate or                *)
(* CalculateWithDetails.                                                   *)
(***************************************************************************)
Amounts == -1..MaxAmount
PackSlices == SeqsUpTo(1..MaxPack, MaxLen)

NoResult == [packs |-> NilMap, total |-> 0, totalPacks |-> 0, err |-> ErrNone, rem |-> 0]

NoTables == [dp |-> <<>>, parent |-> <<>>]

NewRun ==
    [pc |-> "new", packSizes |-> <<>>, maxTarget |-> 0, i |-> 0, bestTotal |-> 0,
     current |-> 0, packs |-> NilMap, total |-> 0, totalPacks |-> 0, err |-> ErrNone]

NoRuns ==
    /\ run = [p \in Procs |-> NewRun]
    /\ tables = [p \in Procs |-> NoTables]

InitSolver(inputs) ==
    /\ NoRuns
    /\ NoOuter
    /\ NoCache
    /\ NoServer
    /\ \E inp \in inputs : amount = inp[1] /\ input = inp[2]
    /\ calc = [packSizes |-> <<>>]
    /\ res = NoResult
    /\ spc = "new"

\* as Passed, with sort.Ints run on the slice the caller passed
PassedSorted(packSizes) == SortInts(packSizes)

\* the caller's slice once NewCalculator has returned: copy() only reads it,
\* and sort.Ints works on the copy
Passed(packSizes) == packSizes

DoNewCalculator ==
    /\ spc = "new"
    /\ calc' = NewCalculator(input)
    /\ input' = Passed(input)
    /\ spc' = "ready"
    /\ UNCHANGED <<amount, res, runVars, outerVars, cacheVars, serverVars>>

DoCalculate ==
    /\ spc = "ready"
    /\ res' = LET r == Calculate(calc, amount)
              IN [packs |-> r.packs, total |-> r.total, totalPacks |-> 0,
                  err |-> r.err, rem |-> r.rem]
    /\ spc' = "calculated"
    /\ UNCHANGED <<amount, input, calc, runVars, outerVars, cacheVars, serverVars>>

DoCalculateWithDetails ==
    /\ spc = "ready"
    /\ res' \in CalculateWithDetails(calc, amount)
    /\ spc' = "detailed"
    /\ UNCHANGED <<amount, input, calc, runVars, outerVars, cacheVars, serverVars>>

NextSolver == DoNewCalculator \/ DoCalculate \/ DoCalculateWithDetails

Init == InitSolver(Amounts \X PackSlices)

Next == NextSolver

Spec == Init /\ [][Next]_vars

(***************************************************************************)
(* Two goroutines, each building its own Calculator from the caller's      *)
(* slice and running CalculateWithDetails on the same amount, their steps  *)
(* interleaved: one step per iteration of the relaxation and of the        *)
(* reconstruction loop.                                                    *)
(***************************************************************************)
\* as Frame, with one dp and parent kept for all calls
FrameShared(p) == 1

\* dp := make(...), parent := make(...): the slices belong to the call that made them
Frame(p) == p

InitRuns ==
    /\ amount \in 0..RunMaxAmount
    /\ input \in SeqsUpTo(1..RunMaxPack, RunMaxLen)
    /\ calc = [packSizes |-> <<>>]
    /\ res = NoResult
    /\ spc = "runs"
    /\ NoRuns
    /\ NoOuter
    /\ NoCache
    /\ NoServer

RunFails(p, e) ==
    run' = [run EXCEPT ![p].pc = "done", ![p].packs = NilMap, ![p].total = 0,
                       ![p].totalPacks = 0, ![p].err = e]

RunNew(p) ==
    /\ run[p].pc = "new"
    /\ run' = [run EXCEPT ![p].pc = "check",
                          ![p].packSizes = NewCalculator(input).packSizes]
    /\ UNCHANGED <<solverVars, tables, cacheVars, serverVars, outerVars>>

RunCheck(p) ==
    /\ run[p].pc = "check"
    /\ IF InvalidAmount(amount) THEN RunFails(p, ErrAmount) /\ UNCHANGED tables
       ELSE IF NoPackSizes(run[p]) THEN RunFails(p, ErrNoPacks) /\ UNCHANGED tables
       ELSE LET maxTarget == MaxTarget(amount, run[p].packSizes)
            IN /\ tables' = [tables EXCEPT ![Frame(p)] = InitTables(maxTarget)]
               /\ run' = [run EXCEPT ![p].pc = "relax", ![p].maxTarget = maxTarget,
                                     ![p].i = 0]
    /\ UNCHANGED <<solverVars, cacheVars, serverVars, outerVars>>

RunRelax(p) ==
    /\ run[p].pc = "relax"
    /\ IF run[p].i <= run[p].maxTarget
       THEN /\ tables' = [tables EXCEPT ![Frame(p)] =
                              RelaxAt(@, run[p].i, run[p].maxTarget, run[p].packSizes)]
            /\ run' = [run EXCEPT ![p].i = @ + 1]
       ELSE /\ run' = [run EXCEPT ![p].pc = "scan"]
            /\ UNCHANGED tables
    /\ UNCHANGED <<solverVars, cacheVars, serverVars, outerVars>>

RunScan(p) ==
    /\ run[p].pc = "scan"
    /\ LET bestTotal == FindBest(tables[Frame(p)].dp, amount, run[p].maxTarget)
       IN IF bestTotal = -1 THEN RunFails(p, ErrNoCombination)
          ELSE run' = [run EXCEPT ![p].pc = "back", ![p].bestTotal = bestTotal,
                                  ![p].current = bestTotal, ![p].packs = NilMap]
    /\ UNCHANGED <<solverVars, tables, cacheVars, serverVars, outerVars>>

RunBack(p) ==
    /\ run[p].pc = "back"
    /\ IF run[p].current > 0
       THEN LET packUsed == At(tables[Frame(p)].parent, run[p].current)
            IN run' = [run EXCEPT ![p].packs = Incr(@, packUsed),
                                  ![p].current = @ - packUsed]
       ELSE run' = [run EXCEPT ![p].pc = "count", ![p].total = run[p].bestTotal]
    /\ UNCHANGED <<solverVars, tables, cacheVars, serverVars, outerVars>>

RunCount(p) ==
    /\ run[p].pc = "count"
    /\ \E order \in Orders(DOMAIN run[p].packs) :
           run' = [run EXCEPT ![p].pc = "done",
                              ![p].totalPacks = CountPacks(run[p].packs, order, 0)]
    /\ UNCHANGED <<solverVars, tables, cacheVars, serverVars, outerVars>>

NextRuns ==
    \E p \in Procs :
        \/ RunNew(p)
        \/ RunCheck(p)
        \/ RunRelax(p)
        \/ RunScan(p)
        \/ RunBack(p)
        \/ RunCount(p)

SpecRuns == InitRuns /\ [][NextRuns]_vars

(***************************************************************************)
(* The cache used by one client.                                           *)
(***************************************************************************)
InitCache ==
    /\ \E size \in 0..MaxCap : NewMemoryCache(size)
    /\ now = 0
    /\ touched = <<>>
    /\ NoThreads
    /\ NoServer
    /\ amount = 0
    /\ input = <<>>
    /\ calc = [packSizes |-> <<>>]
    /\ res = NoResult
    /\ spc = "cache"
    /\ NoRuns
    /\ NoOuter

\* what the callers store under a key: the solution of the key's amount and pack
\* sizes, which the key determines
PacksOf(key) == key
TotalOf(key) == key

SetAny == CacheOnly /\ \E key \in Keys : Set(key, PacksOf(key), TotalOf(key), TTL)

\* a Set with a key no call has used yet
SetDistinct ==
    CacheOnly /\ \E key \in Keys :
        /\ \A j \in DOMAIN touched : touched[j] # key
        /\ Set(key, PacksOf(key), TotalOf(key), TTL)

GetAny == CacheOnly /\ \E key \in Keys : Get(key)

ClearAny == CacheOnly /\ Clear

TickAny == CacheOnly /\ Tick

\* one client calling Get, Set and Clear one after the other
NextCache == GetAny \/ SetAny \/ ClearAny \/ TickAny

SpecCache == InitCache /\ [][NextCache]_vars

\* one client calling Set with distinct keys
NextInserts == SetDistinct \/ TickAny

SpecInserts == InitCache /\ [][NextInserts]_vars

(***************************************************************************)
(* The cache shared by goroutines: Get holds the shared lock for its       *)
(* lookup, no lock for its counter, and the exclusive lock for its         *)
(* promotion, and other calls run in between; Set and Clear hold the       *)
(* exclusive lock from their first statement to their last.                *)
(***************************************************************************)
LookupAny == CacheOnly /\ \E t \in Procs, key \in Keys : GetLookup(t, key)

CountAny == CacheOnly /\ \E t \in Procs : GetCount(t)

PromoteAny == CacheOnly /\ \E t \in Procs : GetPromote(t)

NextShared == LookupAny \/ CountAny \/ PromoteAny \/ SetAny \/ ClearAny

SpecShared == InitCache /\ [][NextShared]_vars

(***************************************************************************)
(* One client that stores results of its choice with lifetimes of its      *)
(* choice, keeps what Get returns, and clears, while the clock moves.      *)
(***************************************************************************)
EntryKeys == 1..MaxEntries
Payloads == 1..MaxPayload
TTLs == 0..MaxTTL

SetVaried ==
    CacheOnly /\ \E key \in EntryKeys, packs \in Payloads, ttl \in TTLs :
                     Set(key, packs, packs, ttl)

\* packs, total, found := c.Get(key)
GetKept ==
    \E key \in EntryKeys :
        /\ Get(key)
        /\ caller' = [caller EXCEPT !.got = [key |-> key, ret |-> GetResult(key)]]
        /\ UNCHANGED <<solverVars, runVars, serverVars, mu, limiter, listing>>

NextEntries == GetKept \/ SetVaried \/ ClearAny \/ TickAny

SpecEntries == InitCache /\ [][NextEntries]_vars

(***************************************************************************)
(* One client that sets every key again and again, on a cache of any       *)
(* capacity from one to the number of keys.                                *)
(***************************************************************************)
SetAgain ==
    CacheOnly /\ \E key \in Keys, packs \in Payloads, ttl \in TTLs :
                     Set(key, packs, packs, ttl)

InitOverwrite ==
    /\ \E size \in 1..NumKeys : NewMemoryCache(size)
    /\ now = 0
    /\ touched = <<>>
    /\ NoThreads
    /\ NoServer
    /\ amount = 0
    /\ input = <<>>
    /\ calc = [packSizes |-> <<>>]
    /\ res = NoResult
    /\ spc = "cache"
    /\ NoRuns
    /\ NoOuter

NextOverwrite == SetAgain \/ GetKept

SpecOverwrite == InitOverwrite /\ [][NextOverwrite]_vars

(***************************************************************************)
(* One client and its map[int]int objects: Set is handed a map, which in   *)
(* Go is a reference to the map object, and stores it in the item; Get     *)
(* returns item.packs, the same reference; the client writes to the maps   *)
(* it holds.                                                               *)
(***************************************************************************)
\* packs := make(map[int]int) and its entries
MakeMap ==
    \E packs \in Payloads :
        /\ Len(caller.maps) < MaxMaps
        /\ caller' = [caller EXCEPT !.maps = Append(caller.maps, packs)]
        /\ UNCHANGED <<solverVars, runVars, serverVars, cacheVars, mu, limiter, listing>>

\* c.Set(key, packs, total, ttl) with a map of the client
SetMap ==
    CacheOnly /\ \E key \in EntryKeys, packs \in DOMAIN caller.maps :
                     Set(key, packs, caller.maps[packs], TTL)

\* the maps the client has handed to Set and the cache still holds, and the map
\* its last Get returned
Shared == {items[key].packs : key \in DOMAIN items} \cup ({caller.got.ret.packs} \ {Nil})

\* packs[size] = count on a map handed to Set or returned by Get
WriteMap ==
    \E packs \in Shared, entries \in Payloads :
        /\ entries # caller.maps[packs]
        /\ caller' = [caller EXCEPT !.maps[packs] = entries]
        /\ UNCHANGED <<solverVars, runVars, serverVars, cacheVars, mu, limiter, listing>>

NextMaps == MakeMap \/ SetMap \/ GetKept \/ WriteMap

SpecMaps == InitCache /\ [][NextMaps]_vars

(***************************************************************************)
(* Goroutines in Get while the clock moves, and the client storing and     *)
(* clearing while no Get is in progress.                                   *)
(***************************************************************************)

NoGet == \A t \in Procs : thr[t].pc = "idle"

NextReaders ==
    \/ LookupAny
    \/ CountAny
    \/ PromoteAny
    \/ TickAny
    \/ (NoGet /\ SetVaried)
    \/ (NoGet /\ ClearAny)

SpecReaders == InitCache /\ [][NextReaders]_vars

(***************************************************************************)
(* GenerateCacheKey called by two callers, each with an amount and a slice *)
(* of distinct positive sizes in some order.                               *)
(***************************************************************************)
Distinct(seq) == \A i, j \in DOMAIN seq : i # j => seq[i] # seq[j]

KeySlices == {seq \in SeqsUpTo(1..KeyMaxPack, KeyMaxLen) : Distinct(seq)}

KeyCalls == {[NoRequest EXCEPT !.amount = a, !.packSizes = seq] :
                 a \in 1..KeyMaxAmount, seq \in KeySlices}

InitKeys ==
    /\ req \in [Procs -> KeyCalls]
    /\ store = {}
    /\ journal = <<>>
    /\ replies = <<>>
    /\ NoCache
    /\ NoRuns
    /\ NoOuter
    /\ amount = 0
    /\ input = <<>>
    /\ calc = [packSizes |-> <<>>]
    /\ res = NoResult
    /\ spc = "keys"

DoGenerateCacheKey(c) ==
    /\ req[c].pc = "idle"
    /\ req' = [req EXCEPT ![c].pc = "keyed",
                          ![c].key = GenerateCacheKey(req[c].amount, req[c].packSizes)]
    /\ UNCHANGED <<store, journal, replies, solverVars, runVars, outerVars, cacheVars>>

NextKeys == \E c \in Procs : DoGenerateCacheKey(c)

SpecKeys == InitKeys /\ [][NextKeys]_vars

(***************************************************************************)
(* The HTTP handlers CalculatePacks, AddPackSize and DeletePackSize, each  *)
(* request served by a goroutine: one step per statement that reads or     *)
(* writes the pack-size table, the cache or the orders table.              *)
(***************************************************************************)
\* const maxAmount
maxAmount == 10000000

\* the amounts and sizes the clients send
OrderAmounts == (0..MaxOrder) \cup {maxAmount, maxAmount + 1}
SentSizes == 0..MaxSize

\* the solver is run on the small amounts only
CanSolve(amt) == amt <= MaxOrder

\* SELECT size FROM pack_sizes ORDER BY size ASC, as a slice
RECURSIVE GetPackSizesAsSlice(_)
GetPackSizesAsSlice(sizes) ==
    IF sizes = {} THEN <<>>
    ELSE LET least == CHOOSE x \in sizes : \A y \in sizes : x <= y
         IN <<least>> \o GetPackSizesAsSlice(sizes \ {least})

\* the requests received so far
Received == Len(replies) + Cardinality({c \in Procs : req[c].pc # "idle"})

Quiet == \A c \in Procs : req[c].pc = "idle"

\* the body of a failure
ErrorBody(text) == [error |-> text]

\* models.PackCalculationResult
ResultBody(amt, totalItems, totalPacks, packs) ==
    [amount |-> amt, total_items |-> totalItems, total_packs |-> totalPacks,
     packs |-> packs]

\* respondJSON and return: the response joins the history and the goroutine is free
Respond(c, kind, arg, status, body, cached, h, m) ==
    /\ replies' = Append(replies,
                         [kind |-> kind, arg |-> arg, status |-> status, body |-> body,
                          cached |-> cached, hits |-> h - req[c].hits0,
                          misses |-> m - req[c].misses0, at |-> now,
                          sizes |-> store'])
    /\ req' = [req EXCEPT ![c] = NoRequest]

\* req.Amount < 1
AmountTooSmall(amt) == amt < 1

\* as AmountTooLarge, the limit itself refused
AmountAtLimit(amt) == amt >= maxAmount

\* req.Amount > maxAmount
AmountTooLarge(amt) == amt > maxAmount

\* CalculatePacks: the request decoded, the amount validated
CalculateBegin(c, amt) ==
    /\ req[c].pc = "idle"
    /\ Received < MaxRequests
    /\ UNCHANGED <<store, journal, cacheVars, solverVars, runVars, outerVars>>
    /\ IF AmountTooSmall(amt)
       THEN Respond(c, "calculate", amt, 400, ErrorBody("Amount must be at least 1"),
                    FALSE, req[c].hits0, req[c].misses0)
       ELSE IF AmountTooLarge(amt)
       THEN Respond(c, "calculate", amt, 400, ErrorBody("Amount too large"),
                    FALSE, req[c].hits0, req[c].misses0)
       ELSE /\ req' = [req EXCEPT ![c] = [NoRequest EXCEPT !.pc = "read",
                                                           !.kind = "calculate",
                                                           !.amount = amt,
                                                           !.hits0 = hits,
                                                           !.misses0 = misses]]
            /\ UNCHANGED replies

\* as NoConfig, an empty table let through
NoConfigNever(packSizes) == FALSE

\* len(packSizes) == 0
NoConfig(packSizes) == Len(packSizes) = 0

\* CalculatePacks: the pack sizes read, the cache key made
CalculateRead(c) ==
    /\ req[c].pc = "read"
    /\ UNCHANGED <<store, journal, cacheVars, solverVars, runVars, outerVars>>
    /\ LET packSizes == GetPackSizesAsSlice(store)
       IN IF NoConfig(packSizes)
          THEN Respond(c, "calculate", req[c].amount, 400,
                       ErrorBody("No pack sizes configured"), FALSE, hits, misses)
          ELSE /\ req' = [req EXCEPT ![c].pc = "get",
                                     ![c].packSizes = packSizes,
                                     ![c].key = GenerateCacheKey(req[c].amount, packSizes)]
               /\ UNCHANGED replies

\* as CalculateGet, the order saved on a hit too
CalculateGetSaving(c) ==
    /\ req[c].pc = "get"
    /\ Get(req[c].key)
    /\ UNCHANGED <<store, solverVars, runVars, outerVars>>
    /\ IF Absent(req[c].key)
       THEN /\ req' = [req EXCEPT ![c].pc = "solve"]
            /\ UNCHANGED <<replies, journal>>
       ELSE LET cachedPacks == items[req[c].key].packs
                cachedTotal == items[req[c].key].total
            IN \E order \in Orders(DOMAIN cachedPacks) :
                   /\ journal' = Append(journal,
                                        [amount |-> req[c].amount,
                                         total_items |-> cachedTotal,
                                         total_packs |-> CountPacks(cachedPacks, order, 0),
                                         packs |-> cachedPacks])
                   /\ Respond(c, "calculate", req[c].amount, 200,
                              ResultBody(req[c].amount, cachedTotal,
                                         CountPacks(cachedPacks, order, 0), cachedPacks),
                              TRUE, hits', misses')

\* CalculatePacks: h.cache.Get, and on a hit the response from the cached result
CalculateGet(c) ==
    /\ req[c].pc = "get"
    /\ Get(req[c].key)
    /\ UNCHANGED <<store, journal, solverVars, runVars, outerVars>>
    /\ IF Absent(req[c].key)
       THEN /\ req' = [req EXCEPT ![c].pc = "solve"]
            /\ UNCHANGED replies
       ELSE LET cachedPacks == items[req[c].key].packs
                cachedTotal == items[req[c].key].total
            IN \E order \in Orders(DOMAIN cachedPacks) :
                   Respond(c, "calculate", req[c].amount, 200,
                           ResultBody(req[c].amount, cachedTotal,
                                      CountPacks(cachedPacks, order, 0), cachedPacks),
                           TRUE, hits', misses')

\* CalculatePacks: NewCalculator and CalculateWithDetails
CalculateSolve(c) ==
    /\ req[c].pc = "solve"
    /\ CanSolve(req[c].amount)
    /\ UNCHANGED <<store, journal, cacheVars, solverVars, runVars, outerVars>>
    /\ \E r \in CalculateWithDetails(NewCalculator(req[c].packSizes), req[c].amount) :
           IF r.err # ErrNone
           THEN Respond(c, "calculate", req[c].amount, 500, ErrorBody(r.err), FALSE,
                        hits, misses)
           ELSE /\ req' = [req EXCEPT ![c].pc = "set", ![c].packs = r.packs,
                                      ![c].total = r.total,
                                      ![c].totalPacks = r.totalPacks]
                /\ UNCHANGED replies

\* as CalculateSet, the result not stored before the order is saved
CalculateSetSkipped(c) ==
    /\ req[c].pc = "set"
    /\ req' = [req EXCEPT ![c].pc = "save"]
    /\ UNCHANGED <<store, journal, replies, cacheVars, solverVars, runVars, outerVars>>

\* CalculatePacks: h.cache.Set
CalculateSet(c) ==
    /\ req[c].pc = "set"
    /\ Set(req[c].key, req[c].packs, req[c].total, TTL)
    /\ req' = [req EXCEPT ![c].pc = "save"]
    /\ UNCHANGED <<store, journal, replies, solverVars, runVars, outerVars>>

\* models.Order, as SaveOrder inserts it
Order(r) ==
    [amount |-> r.amount, total_items |-> r.total, total_packs |-> r.totalPacks,
     packs |-> r.packs]

\* as AfterSaveOrder, the request failed when the order was not saved
FailedSaveOrder(saved) == IF saved THEN 200 ELSE 500

\* if err := h.repo.SaveOrder(order); err != nil { }: the error is dropped
AfterSaveOrder(saved) == 200

\* CalculatePacks: SaveOrder, which inserts the order or fails, and the response
CalculateSave(c) ==
    /\ req[c].pc = "save"
    /\ UNCHANGED <<store, cacheVars, solverVars, runVars, outerVars>>
    /\ \E saved \in BOOLEAN :
           /\ journal' = IF saved THEN Append(journal, Order(req[c])) ELSE journal
           /\ Respond(c, "calculate", req[c].amount, AfterSaveOrder(saved),
                      ResultBody(req[c].amount, req[c].total, req[c].totalPacks,
                                 req[c].packs),
                      FALSE, hits, misses)

\* AddPackSize: the request decoded, the size validated
AddBegin(c, size) ==
    /\ req[c].pc = "idle"
    /\ Received < MaxRequests
    /\ UNCHANGED <<store, journal, cacheVars, solverVars, runVars, outerVars>>
    /\ IF size < 1
       THEN Respond(c, "add", size, 400, ErrorBody("Size must be at least 1"), FALSE,
                    req[c].hits0, req[c].misses0)
       ELSE /\ req' = [req EXCEPT ![c] = [NoRequest EXCEPT !.pc = "exists",
                                                           !.kind = "add",
                                                           !.size = size]]
            /\ UNCHANGED replies

\* AddPackSize: PackSizeExists
AddExists(c) ==
    /\ req[c].pc = "exists"
    /\ UNCHANGED <<store, journal, cacheVars, solverVars, runVars, outerVars>>
    /\ IF req[c].size \in store
       THEN Respond(c, "add", req[c].size, 409, ErrorBody("Pack size already exists"),
                    FALSE, 0, 0)
       ELSE /\ req' = [req EXCEPT ![c].pc = "insert"]
            /\ UNCHANGED replies

\* AddPackSize: repo.AddPackSize, the INSERT refused when the size is there by now
AddInsert(c) ==
    /\ req[c].pc = "insert"
    /\ UNCHANGED <<journal, cacheVars, solverVars, runVars, outerVars>>
    /\ IF req[c].size \in store
       THEN /\ UNCHANGED store
            /\ Respond(c, "add", req[c].size, 500, ErrorBody("Failed to add pack size"),
                       FALSE, 0, 0)
       ELSE /\ store' = store \cup {req[c].size}
            /\ req' = [req EXCEPT ![c].pc = "clear"]
            /\ UNCHANGED replies

\* as NoRows, a DELETE that matched no row taken as done
NoRowsIgnored(size) == FALSE

\* rows == 0: DELETE FROM pack_sizes WHERE size = $1 matched no row
NoRows(size) == size \notin store

\* DeletePackSize: repo.DeletePackSize, not found when no row was deleted
DeleteBegin(c, size) ==
    /\ req[c].pc = "idle"
    /\ Received < MaxRequests
    /\ UNCHANGED <<journal, cacheVars, solverVars, runVars, outerVars>>
    /\ IF NoRows(size)
       THEN /\ UNCHANGED store
            /\ Respond(c, "delete", size, 404, ErrorBody("pack size not found"), FALSE,
                       req[c].hits0, req[c].misses0)
       ELSE /\ store' = store \ {size}
            /\ req' = [req EXCEPT ![c] = [NoRequest EXCEPT !.pc = "clear",
                                                           !.kind = "delete",
                                                           !.size = size]]
            /\ UNCHANGED replies

\* AddPackSize and DeletePackSize: h.cache.Clear and the response
ClearAndRespond(c) ==
    /\ req[c].pc = "clear"
    /\ Clear
    /\ UNCHANGED <<store, journal, solverVars, runVars, outerVars>>
    /\ Respond(c, req[c].kind, req[c].size, IF req[c].kind = "add" THEN 201 ELSE 200,
               [message |-> "ok"], FALSE, 0, 0)

\* a request arrives
Arrive ==
    \E c \in Procs :
        \/ \E amt \in OrderAmounts : CalculateBegin(c, amt)
        \/ \E size \in SentSizes : AddBegin(c, size)
        \/ \E size \in SentSizes : DeleteBegin(c, size)

\* a request in service moves on
Serve ==
    \E c \in Procs :
        \/ CalculateRead(c)
        \/ CalculateGet(c)
        \/ CalculateSolve(c)
        \/ CalculateSet(c)
        \/ CalculateSave(c)
        \/ AddExists(c)
        \/ AddInsert(c)
        \/ ClearAndRespond(c)

InitServer ==
    /\ \E size \in 0..MaxCap : NewMemoryCache(size)
    /\ now = 0
    /\ touched = <<>>
    /\ NoThreads
    /\ req = [c \in Procs |-> NoRequest]
    /\ store \in SUBSET (1..MaxSize)
    /\ journal = <<>>
    /\ replies = <<>>
    /\ amount = 0
    /\ input = <<>>
    /\ calc = [packSizes |-> <<>>]
    /\ res = NoResult
    /\ spc = "server"
    /\ NoRuns
    /\ NoOuter

\* the requests sent one after the other, each after the response to the one
\* before, and the clock moving between them
NextClient == (Quiet /\ Arrive) \/ Serve \/ (Quiet /\ TickAny)

SpecClient == InitServer /\ [][NextClient]_vars

\* the requests of several clients served at once
NextServer == Arrive \/ Serve

SpecServer == InitServer /\ [][NextServer]_vars

(***************************************************************************)
(* The handler GetOrders: the limit parameter of the URL, parsed, and the  *)
(* limit handed to GetAllOrders, which is the LIMIT of its query.          *)
(***************************************************************************)
\* the limits the clients write, and parameters that are not numbers; a
\* request without the parameter has the empty string
SentLimits == {-5, 0, 1, 7, 100, 999, 1000, 1001, 5000}

LimitStrings ==
    {<<>>, <<"a", "b", "c">>, <<"1", "0", "x">>, <<"-">>, <<"+", "7">>}
        \cup {Itoa(n) : n \in SentLimits}

IsDigit(ch) == \E d \in DOMAIN Digits : Digits[d] = ch

DigitOf(ch) == (CHOOSE d \in DOMAIN Digits : Digits[d] = ch) - 1

\* the value of a string of digits
RECURSIVE ParseDigits(_)
ParseDigits(str) ==
    IF str = <<>> THEN 0
    ELSE ParseDigits(SubSeq(str, 1, Len(str) - 1)) * 10 + DigitOf(str[Len(str)])

\* strconv.Atoi: an optional sign and one digit or more, or an error
Atoi(str) ==
    LET signed == str # <<>> /\ str[1] \in {"+", "-"}
        digits == IF signed THEN Tail(str) ELSE str
    IN IF digits = <<>> \/ \E i \in DOMAIN digits : ~IsDigit(digits[i])
       THEN [value |-> 0, err |-> TRUE]
       ELSE [value |-> IF signed /\ str[1] = "-" THEN -ParseDigits(digits)
                       ELSE ParseDigits(digits),
             err |-> FALSE]

\* limit := 100; if limitStr != "" { if l, err := strconv.Atoi(limitStr);
\* err == nil && l > 0 { limit = l } }
LimitOf(limitStr) ==
    IF limitStr # <<>> /\ ~Atoi(limitStr).err /\ Atoi(limitStr).value > 0
    THEN Atoi(limitStr).value
    ELSE 100

\* GetOrders: h.repo.GetAllOrders(limit)
GetOrders(c) ==
    /\ listing[c].pc = "idle"
    /\ listing' = [listing EXCEPT ![c].pc = "queried",
                                  ![c].limit = LimitOf(listing[c].limitStr)]
    /\ UNCHANGED <<solverVars, runVars, cacheVars, serverVars, mu, caller, limiter>>

InitOrders ==
    /\ listing \in [Procs -> {[NoListing EXCEPT !.limitStr = str] : str \in LimitStrings}]
    /\ caller = NoCaller
    /\ limiter = NewRateLimiter(1, 1)
    /\ mu = NoLock
    /\ NoCache
    /\ NoServer
    /\ run = [p \in Procs |-> NewRun]
    /\ tables = [p \in Procs |-> NoTables]
    /\ amount = 0
    /\ input = <<>>
    /\ calc = [packSizes |-> <<>>]
    /\ res = NoResult
    /\ spc = "orders"

NextOrders == \E c \in Procs : GetOrders(c)

SpecOrders == InitOrders /\ [][NextOrders]_vars

(***************************************************************************)
(* The rate limiter of package middleware: RateLimitMiddleware calls Allow *)
(* for the request's address; Allow takes the visitor under the limiter's  *)
(* lock (getVisitor), releases it, and then refills and draws from the     *)
(* visitor's bucket under the visitor's lock; cleanupVisitors runs in its  *)
(* own goroutine, on a ticker, under both locks.                           *)
(***************************************************************************)
Ips == 1..NumClients

\* 5 * time.Minute, in ticks: as in main.go, where it is 3000 times the rate
\* and the burst is 20, longer than an empty bucket takes to fill
IdleLimit == MaxBurst * RateTicks

\* the calls of Allow begun so far
Called == Len(limiter.log) + Cardinality({p \in Procs : limiter.calls[p].pc # "idle"})

\* &Visitor{tokens: rl.burst, lastSeen: time.Now()}
NewVisitor == [tokens |-> limiter.burst, lastSeen |-> limiter.clock]

\* Allow: rl.getVisitor(ip), the visitor made if the address has none
getVisitor(p, ip) ==
    /\ limiter.calls[p].pc = "idle"
    /\ Called < MaxCalls
    /\ IF ip \in DOMAIN limiter.visitors
       THEN limiter' = [limiter EXCEPT !.calls[p] = [pc |-> "bucket", ip |-> ip,
                                                    visitor |-> limiter.visitors[ip]]]
       ELSE LET visitor == Len(limiter.objects) + 1
            IN limiter' = [limiter EXCEPT
                               !.objects = Append(limiter.objects, NewVisitor),
                               !.visitors = (ip :> visitor) @@ limiter.visitors,
                               !.calls[p] = [pc |-> "bucket", ip |-> ip,
                                             visitor |-> visitor]]
    /\ UNCHANGED <<solverVars, runVars, cacheVars, serverVars, mu, caller, listing>>

\* Allow: the tokens added for the time elapsed, capped at the burst
Refilled(v, tokensToAdd) ==
    IF tokensToAdd > 0
    THEN [tokens |-> IF v.tokens + tokensToAdd > limiter.burst THEN limiter.burst
                     ELSE v.tokens + tokensToAdd,
          lastSeen |-> limiter.clock]
    ELSE v

\* Allow under the visitor's lock, and RateLimitMiddleware's answer: next(w, r)
\* when a token was drawn, 429 otherwise
Allow(p) ==
    /\ limiter.calls[p].pc = "bucket"
    /\ LET visitor == limiter.calls[p].visitor
           elapsed == limiter.clock - limiter.objects[visitor].lastSeen
           tokensToAdd == elapsed \div limiter.rate
           v == Refilled(limiter.objects[visitor], tokensToAdd)
           allowed == v.tokens > 0
       IN limiter' = [limiter EXCEPT
                          !.objects[visitor] =
                              IF allowed THEN [v EXCEPT !.tokens = v.tokens - 1] ELSE v,
                          !.calls[p] = NoCall,
                          !.log = Append(limiter.log,
                                         [ip |-> limiter.calls[p].ip,
                                          at |-> limiter.clock,
                                          status |-> IF allowed THEN "next" ELSE "429"])]
    /\ UNCHANGED <<solverVars, runVars, cacheVars, serverVars, mu, caller, listing>>

\* the addresses cleanupVisitors deletes: time.Since(v.lastSeen) > 5*time.Minute
Idle ==
    {ip \in DOMAIN limiter.visitors :
         limiter.clock - limiter.objects[limiter.visitors[ip]].lastSeen > IdleLimit}

\* cleanupVisitors: one round of the loop, when the ticker fires
cleanupVisitors ==
    /\ Idle # {}
    /\ limiter' = [limiter EXCEPT
                       !.visitors = [ip \in DOMAIN limiter.visitors \ Idle |->
                                         limiter.visitors[ip]]]
    /\ UNCHANGED <<solverVars, runVars, cacheVars, serverVars, mu, caller, listing>>

\* time passes
LimiterTick ==
    /\ limiter.clock < MaxTicks
    /\ limiter' = [limiter EXCEPT !.clock = limiter.clock + 1]
    /\ UNCHANGED <<solverVars, runVars, cacheVars, serverVars, mu, caller, listing>>

InitLimiter ==
    /\ limiter \in {NewRateLimiter(RateTicks, burst) : burst \in 1..MaxBurst}
    /\ caller = NoCaller
    /\ listing = [c \in Procs |-> NoListing]
    /\ mu = NoLock
    /\ NoCache
    /\ NoServer
    /\ run = [p \in Procs |-> NewRun]
    /\ tables = [p \in Procs |-> NoTables]
    /\ amount = 0
    /\ input = <<>>
    /\ calc = [packSizes |-> <<>>]
    /\ res = NoResult
    /\ spc = "limiter"

NextLimiter ==
    \/ \E p \in Procs, ip \in Ips : getVisitor(p, ip)
    \/ \E p \in Procs : Allow(p)
    \/ cleanupVisitors
    \/ LimiterTick

SpecLimiter == InitLimiter /\ [][NextLimiter]_vars

\* the requests served one at a time, the cleanup between them
NoCalls == \A p \in Procs : limiter.calls[p].pc = "idle"

NextLimiterSerial ==
    \/ \E p \in Procs, ip \in Ips : NoCalls /\ getVisitor(p, ip)
    \/ \E p \in Procs : Allow(p)
    \/ NoCalls /\ cleanupVisitors
    \/ NoCalls /\ LimiterTick

SpecLimiterSerial == InitLimiter /\ [][NextLimiterSerial]_vars

(***************************************************************************)
(* The methods of MemoryCache with the lock explicit: a call of RLock or   *)
(* Lock is one step and its return another, taken when the lock is free    *)
(* for it. sync.RWMutex lets no new reader in while a writer waits.        *)
(***************************************************************************)
Position(t) == mu.calls[t].pc

\* the goroutine moves to pc
Moved(m, t, pc) == [m EXCEPT !.calls[t].pc = pc]

\* as RUnlock, the shared lock kept
RUnlockLate(m, t) == m

\* c.mu.RUnlock()
RUnlock(m, t) == [m EXCEPT !.readers = @ \ {t}]

\* c.mu.Unlock()
Unlock(m, t) == [m EXCEPT !.writer = Nil]

\* c.mu.Lock() called: the goroutine waits for the readers and the writer to leave
LockCalled(m, t) == [m EXCEPT !.waiting = @ \cup {t}]

LockOnly == UNCHANGED <<solverVars, runVars, serverVars, cacheVars, caller, limiter, listing>>

LockAnd == UNCHANGED <<solverVars, runVars, serverVars, caller, limiter, listing>>

\* Get(key) called: c.mu.RLock() is its first statement
GetCall(t, key) ==
    /\ Position(t) = "idle"
    /\ Begun + Cardinality({u \in Procs : Position(u) \in {"get.rlock", "get.read"}})
           < MaxGets
    /\ mu' = [mu EXCEPT !.calls[t] = [pc |-> "get.rlock", key |-> key]]
    /\ LockOnly

\* Stats() called: c.mu.RLock() is its first statement
StatsCall(t) ==
    /\ Position(t) = "idle"
    /\ mu' = Moved(mu, t, "stats.rlock")
    /\ LockOnly

\* Set(key, ...) called: c.mu.Lock() is its first statement
SetCall(t, key) ==
    /\ Position(t) = "idle"
    /\ mu' = LockCalled([mu EXCEPT !.calls[t] = [pc |-> "set.lock", key |-> key]], t)
    /\ LockOnly

\* Clear() called: c.mu.Lock() is its first statement
ClearCall(t) ==
    /\ Position(t) = "idle"
    /\ mu' = LockCalled(Moved(mu, t, "clear.lock"), t)
    /\ LockOnly

\* RLock returns: no writer holds the lock and none waits for it
RLockAcquire(t) ==
    /\ Position(t) \in {"get.rlock", "stats.rlock"}
    /\ mu.writer = Nil /\ mu.waiting = {}
    /\ mu' = Moved([mu EXCEPT !.readers = @ \cup {t}], t,
                   IF Position(t) = "get.rlock" THEN "get.read" ELSE "stats.read")
    /\ LockOnly

\* Lock returns: no reader and no writer holds the lock
LockAcquire(t) ==
    /\ Position(t) \in {"get.lock", "set.lock", "clear.lock"}
    /\ mu.writer = Nil /\ mu.readers = {}
    /\ mu' = Moved([mu EXCEPT !.writer = t, !.waiting = @ \ {t}], t,
                   CASE Position(t) = "get.lock" -> "get.locked"
                     [] Position(t) = "set.lock" -> "set.locked"
                     [] OTHER -> "clear.locked")
    /\ LockOnly

\* Get: the lookup, and RUnlock on either branch
GetRead(t) ==
    /\ Position(t) = "get.read"
    /\ GetLookup(t, mu.calls[t].key)
    /\ mu' = Moved(RUnlock(mu, t), t, "get.count")
    /\ LockAnd

\* Get: the atomic add, after which a miss returns
GetCounted(t) ==
    /\ Position(t) = "get.count"
    /\ GetCount(t)
    /\ mu' = IF thr[t].pc = "missed" THEN [mu EXCEPT !.calls[t] = NoMethod]
             ELSE Moved(mu, t, "get.promote")
    /\ LockAnd

\* Get: c.mu.Lock() called for the promotion
GetLockCall(t) ==
    /\ Position(t) = "get.promote"
    /\ mu' = LockCalled(Moved(mu, t, "get.lock"), t)
    /\ LockOnly

\* Get: moveToFront, Unlock and return
GetPromoted(t) ==
    /\ Position(t) = "get.locked"
    /\ GetPromote(t)
    /\ mu' = [Unlock(mu, t) EXCEPT !.calls[t] = NoMethod]
    /\ LockAnd

\* Set: the body, and the deferred Unlock
SetLocked(t) ==
    /\ Position(t) = "set.locked"
    /\ Set(mu.calls[t].key, PacksOf(mu.calls[t].key), TotalOf(mu.calls[t].key), TTL)
    /\ mu' = [Unlock(mu, t) EXCEPT !.calls[t] = NoMethod]
    /\ LockAnd

\* Clear: the body, and the deferred Unlock
ClearLocked(t) ==
    /\ Position(t) = "clear.locked"
    /\ Clear
    /\ mu' = [Unlock(mu, t) EXCEPT !.calls[t] = NoMethod]
    /\ LockAnd

\* Stats: len(c.items) and RUnlock
StatsRead(t) ==
    /\ Position(t) = "stats.read"
    /\ mu' = Moved(RUnlock(mu, t), t, "stats.load")
    /\ LockOnly

\* Stats: the atomic loads, the ratio, and return
StatsLoad(t) ==
    /\ Position(t) = "stats.load"
    /\ mu' = [mu EXCEPT !.calls[t] = NoMethod]
    /\ LockOnly

\* a method is called
Called1(t) ==
    \/ \E key \in 1..MaxContended : GetCall(t, key)
    \/ \E key \in 1..MaxContended : SetCall(t, key)
    \/ ClearCall(t)
    \/ StatsCall(t)

\* a goroutine inside a method runs its next statements
Advance(t) ==
    \/ GetRead(t)
    \/ GetCounted(t)
    \/ GetLockCall(t)
    \/ GetPromoted(t)
    \/ SetLocked(t)
    \/ ClearLocked(t)
    \/ StatsRead(t)
    \/ StatsLoad(t)

NextLocks == \E t \in Procs : Called1(t) \/ RLockAcquire(t) \/ LockAcquire(t) \/ Advance(t)

\* a goroutine inside a method is scheduled again and again, and a goroutine
\* blocked in RLock or Lock gets the lock when it is free for it again and again
FairLocks ==
    \A t \in Procs :
        /\ WF_vars(Advance(t))
        /\ SF_vars(RLockAcquire(t))
        /\ SF_vars(LockAcquire(t))

\* a cache of one entry
InitLocks == InitCache /\ maxSize = 1

SpecLocks == InitLocks /\ [][NextLocks]_vars /\ FairLocks

(***************************************************************************)
(* The seed scenarios: the standard sizes with the amounts of the table.   *)
(***************************************************************************)
StandardSizes == <<250, 500, 1000, 2000, 5000>>

TableAmounts == {1, 250, 251, 501, 12001}

InitTable == InitSolver((Amounts \X PackSlices) \cup (TableAmounts \X {StandardSizes}))

SpecTable == InitTable /\ [][Next]_vars

(***************************************************************************)
(* The edge case of the requirements: CalculateWithDetails on 500000 items *)
(* with the sizes 23, 31 and 53.                                           *)
(***************************************************************************)
EdgeSizes == <<23, 31, 53>>

EdgeAmount == 500000

InitEdge == InitSolver((Amounts \X PackSlices) \cup {<<EdgeAmount, EdgeSizes>>})

NextEdge == DoNewCalculator \/ DoCalculateWithDetails

SpecEdge == InitEdge /\ [][NextEdge]_vars

(***************************************************************************)
(* Inputs with ties: the small inputs and every list of four distinct      *)
(* sizes, in ascending order, with the amounts up to TieMaxAmount.         *)
(***************************************************************************)
TieSlices ==
    {sl \in [1..TieLen -> 1..TieMaxPack] : \A k \in 1..(TieLen - 1) : sl[k] < sl[k + 1]}

InitTies == InitSolver((Amounts \X PackSlices) \cup ((1..TieMaxAmount) \X TieSlices))

SpecTies == InitTies /\ [][Next]_vars

(***************************************************************************)
(* What the claims are measured against: the combinations over the pack    *)
(* sizes, enumerated.                                                      *)
(***************************************************************************)
\* every sequence of counts c, one per member of ps, with sum of ps[k] * c[k] = t
RECURSIVE Multisets(_, _)
Multisets(ps, t) ==
    IF ps = <<>> THEN (IF t = 0 THEN {<<>>} ELSE {})
    ELSE UNION {{<<n>> \o r : r \in Multisets(Tail(ps), t - n * Head(ps))} :
                n \in 0..(t \div Head(ps))}

RECURSIVE SumSeq(_)
SumSeq(c) == IF c = <<>> THEN 0 ELSE Head(c) + SumSeq(Tail(c))

Reachable(t) == Multisets(input, t) # {}

Range(f) == {f[x] : x \in DOMAIN f}

RECURSIVE SumOver(_, _, _)
SumOver(keys, m, weighted) ==
    IF keys = {} THEN 0
    ELSE LET k == CHOOSE x \in keys : TRUE
         IN (IF weighted THEN k * m[k] ELSE m[k]) + SumOver(keys \ {k}, m, weighted)

Items(m) == SumOver(DOMAIN m, m, TRUE)
Packs(m) == SumOver(DOMAIN m, m, FALSE)

Returned == spc \in {"calculated", "detailed"}
Accepted == amount >= 1 /\ input # <<>>

PackOptimality ==
    (spc = "detailed" /\ Accepted) =>
        /\ res.totalPacks = Packs(res.packs)
        /\ \A c \in Multisets(input, res.total) : SumSeq(c) >= res.totalPacks

\* T has several decompositions, one of them with two packs more than P
PackOptimalityWitness ==
    /\ spc = "detailed" /\ Accepted /\ res.err = ErrNone
    /\ \E c \in Multisets(input, res.total) : SumSeq(c) >= res.totalPacks + 2
    /\ res.totalPacks >= 2

\* C3: the returned (M, T, P) is well formed: the keys of M are pack sizes, the
\* counts are >= 1, T is the items of M, P its packs, T >= A, and the
\* reconstruction stopped at remainder 0.
WellFormedSolution ==
    (Returned /\ Accepted) =>
        /\ res.err = ErrNone
        /\ DOMAIN res.packs \subseteq Range(input)
        /\ \A s \in DOMAIN res.packs : res.packs[s] >= 1
        /\ res.total = Items(res.packs)
        /\ spc = "detailed" => res.totalPacks = Packs(res.packs)
        /\ res.total >= amount
        /\ res.rem = 0

\* a solution of two pack sizes, one of them taken twice
WellFormedSolutionWitness ==
    /\ spc = "detailed" /\ Accepted /\ res.err = ErrNone
    /\ Cardinality(DOMAIN res.packs) >= 2
    /\ \E s \in DOMAIN res.packs : res.packs[s] >= 2

\* C4: the horizon amount + max(S) holds a reachable total, so Calculate never
\* fails with "no valid pack combination found" on accepted input.
HorizonSufficient ==
    (Returned /\ Accepted) =>
        /\ res.err # ErrNoCombination
        /\ res.total \in amount..MaxTarget(amount, calc.packSizes)

\* the total found is the last cell but one of the horizon: S = {s}, A = s + 1
HorizonSufficientWitness ==
    /\ Returned /\ Accepted /\ res.err = ErrNone
    /\ res.total > amount
    /\ res.total = MaxTarget(amount, calc.packSizes) - 1

\* C5: Calculate fails on A <= 0 (amount error) and on an empty pack-size list
\* (no-pack-sizes error; the amount check comes first), and a failure returns
\* no multiset and total 0.
FailuresTotal ==
    Returned =>
        /\ amount <= 0 => res.err = ErrAmount
        /\ (input = <<>> /\ amount >= 1) => res.err = ErrNoPacks
        /\ (amount <= 0 \/ input = <<>>) =>
               res.err # ErrNone /\ res.packs = NilMap /\ res.total = 0

\* the call on an empty list of sizes has failed
FailuresTotalWitness ==
    /\ spc = "calculated" /\ input = <<>> /\ amount >= 1 /\ res.err = ErrNoPacks

\* the call on amount 0 has failed
FailuresAmountWitness ==
    /\ spc = "calculated" /\ input # <<>> /\ amount = 0 /\ res.err = ErrAmount

Outcome(p) ==
    [packs |-> run[p].packs, total |-> run[p].total,
     totalPacks |-> run[p].totalPacks, err |-> run[p].err]

\* C6: two runs of the solver on the same amount and pack sizes, also when they
\* run at once on separate Calculator instances, return the same M, T, P and
\* error: no run sees what the other writes.
Determinism ==
    \A p, q \in Procs :
        (run[p].pc = "done" /\ run[q].pc = "done") => Outcome(p) = Outcome(q)

\* both runs have returned a solution of two pack sizes
DeterminismWitness ==
    /\ \A p \in Procs : run[p].pc = "done" /\ run[p].err = ErrNone
    /\ Cardinality(DOMAIN run[1].packs) >= 2

\* the keys of the chain from node n on, following next
RECURSIVE Chain(_, _, _)
Chain(ns, n, fuel) ==
    IF n = Nil \/ fuel = 0 THEN <<>>
    ELSE <<ns[n].key>> \o Chain(ns, ns[n].next, fuel - 1)

ChainKeys == Chain(nodes, head, NumKeys + 1)

Size == Cardinality(DOMAIN items)

\* of a history of touches, the keys the cache holds
Present(seq) == SelectSeq(seq, LAMBDA k : k \in DOMAIN items)

Oldest == Present(touched)[Len(Present(touched))]

Hit(key) == key \in DOMAIN items /\ ~(now > items[key].expiration)

Smaller(a, b) == IF a <= b THEN a ELSE b

\* C9: after any number N of Set calls with distinct keys on a cache of capacity
\* C >= 1, the size is <= C, the C keys set last are present and every earlier
\* key is absent.
CapacityBound ==
    maxSize >= 1 =>
        /\ Size <= maxSize
        /\ DOMAIN items = {touched[j] : j \in 1..Smaller(maxSize, Len(touched))}

\* more keys were set than a capacity of two or more holds
CapacityBoundWitness ==
    /\ maxSize >= 2
    /\ Len(touched) > maxSize
    /\ Size = maxSize

\* C10, the order: the chain from head to tail lists the keys by their latest
\* touch (a Set of the key or a Get that hit it), the newest first.
ChainFollowsTouches == ChainKeys = Present(touched)

\* C10, the eviction: a Set of a new key on a full cache removes one key, the
\* one whose latest touch is the oldest, and adds the new one.
SetEvictsOldest ==
    \A key \in Keys :
        (/\ key \notin DOMAIN items
         /\ maxSize >= 1
         /\ Size >= maxSize
         /\ Set(key, PacksOf(key), TotalOf(key), TTL))
        => DOMAIN items' = (DOMAIN items \ {Oldest}) \cup {key}

\* C10, Get: a hit moves the key to the front and leaves the others in their
\* order; a miss leaves the chain as it is.
GetPromotesOnHit ==
    \A key \in Keys :
        Get(key) =>
            /\ DOMAIN items' = DOMAIN items
            /\ ChainKeys' = IF Hit(key) THEN Touch(ChainKeys, key) ELSE ChainKeys

\* C10: strict LRU eviction in any sequence of Set and Get calls of one client.
StrictLRU ==
    /\ []ChainFollowsTouches
    /\ [][SetEvictsOldest /\ GetPromotesOnHit]_vars

\* a key was evicted from a cache of capacity two or more in which a Get had hit
StrictLRUWitness ==
    /\ maxSize >= 2
    /\ Size = maxSize
    /\ Len(touched) > Size
    /\ hits >= 1
    /\ ChainKeys # <<>>

\* C7: for S = {250, 500, 1000, 2000, 5000} the solver returns (250, 1, {250:1})
\* for A = 1 and A = 250, (500, 1, {500:1}) for A = 251, (750, 2, {500:1, 250:1})
\* for A = 501 and (12250, 4, {5000:2, 2000:1, 250:1}) for A = 12001.
SeedTable ==
    {[amount |-> 1, total |-> 250, totalPacks |-> 1, packs |-> 250 :> 1],
     [amount |-> 250, total |-> 250, totalPacks |-> 1, packs |-> 250 :> 1],
     [amount |-> 251, total |-> 500, totalPacks |-> 1, packs |-> 500 :> 1],
     [amount |-> 501, total |-> 750, totalPacks |-> 2, packs |-> 500 :> 1 @@ 250 :> 1],
     [amount |-> 12001, total |-> 12250, totalPacks |-> 4,
      packs |-> 5000 :> 2 @@ 2000 :> 1 @@ 250 :> 1]}

SeedScenarios ==
    (spc = "detailed" /\ input = StandardSizes) =>
        \A row \in SeedTable :
            amount = row.amount =>
                /\ res.err = ErrNone
                /\ res.total = row.total
                /\ res.totalPacks = row.totalPacks
                /\ res.packs = row.packs

SeedScenariosWitness ==
    /\ spc = "detailed" /\ input = StandardSizes /\ amount = 12001
    /\ res.total = 12250

\* C8: for S = {23, 31, 53} and A = 500000 the solver returns T = 500000,
\* P = 9438 and M = {23:2, 31:7, 53:9429}.
AdversarialScenario ==
    (spc = "detailed" /\ input = EdgeSizes /\ amount = EdgeAmount) =>
        /\ res.err = ErrNone
        /\ res.total = 500000
        /\ res.totalPacks = 9438
        /\ res.packs = (23 :> 2 @@ 31 :> 7 @@ 53 :> 9429)

\* the call on the edge case has returned, all three sizes in its solution
AdversarialScenarioWitness ==
    /\ spc = "detailed" /\ input = EdgeSizes /\ amount = EdgeAmount
    /\ res.rem = 0
    /\ DOMAIN res.packs = {23, 31, 53}

\* the nodes of the chain from n on, by next
RECURSIVE Links(_, _, _)
Links(ns, n, fuel) ==
    IF n = Nil \/ fuel = 0 THEN <<>>
    ELSE <<n>> \o Links(ns, ns[n].next, fuel - 1)

ChainNodes == Links(nodes, head, Cardinality(NodeIds) + 1)

\* C11: in every interleaving of Get, Set and Clear calls, whenever no
\* goroutine holds the exclusive lock, the chain is a well-formed doubly linked
\* list whose node keys are exactly the keys of the map: no node for an absent
\* key, no key without a node, head and tail nil exactly when the map is empty.
ChainMatchesMap ==
    LET ids == ChainNodes
    IN /\ Len(ids) <= Cardinality(NodeIds)
       /\ (head = Nil) <=> (DOMAIN items = {})
       /\ (tail = Nil) <=> (DOMAIN items = {})
       /\ ids # <<>> => /\ nodes[head].prev = Nil
                        /\ ids[Len(ids)] = tail
       /\ \A i \in 1..(Len(ids) - 1) : nodes[ids[i + 1]].prev = ids[i]
       /\ Len(ids) = Cardinality(DOMAIN items)
       /\ {nodes[ids[i]].key : i \in 1..Len(ids)} = DOMAIN items
       /\ \A k \in DOMAIN items :
              /\ nodes[items[k].node].key = k
              /\ \E i \in 1..Len(ids) : ids[i] = items[k].node

\* C12: in every interleaving of calls on a cache of capacity C >= 1, the
\* number of entries of the map, which Stats reports as Size, is at most C.
SizeWithinCapacity == maxSize >= 1 => Cardinality(DOMAIN items) <= maxSize

\* C13 as stated: over any sequence of Get, Set, Clear and Stats calls, hits and
\* misses never decrease, and hits + misses is the number of Get calls that
\* have returned.
CountersNeverDecrease ==
    [][/\ hits' >= hits
       /\ misses' >= misses
       /\ hits' + misses' = gets'.all]_vars

\* C13, amended: hits + misses is the number of Get calls that have returned
\* since the last Clear (or since construction), and hits and misses never
\* decrease from one call to the next unless the call is a Clear.
CountersSinceClear ==
    [][/\ hits' + misses' = gets'.since
       /\ gets'.since >= gets.since => (hits' >= hits /\ misses' >= misses)]_vars

\* a Get has returned, then a Clear, then one more Get
CountersSinceClearWitness ==
    /\ gets.all > gets.since
    /\ gets.since >= 1
    /\ hits + misses >= 1

\* C14: when Clear returns, no other call being in progress, Stats reports
\* size 0, hits 0 and misses 0 and the chain is empty; and from then until the
\* next Set, Get returns not-found for every key.
ClearLeavesNothing ==
    [][/\ Clear => /\ Stats'.Size = 0
                   /\ Stats'.Hits = 0
                   /\ Stats'.Misses = 0
                   /\ head' = Nil
                   /\ tail' = Nil
                   /\ ChainNodes' = <<>>
       /\ touched = <<>> =>
              \A key \in Keys :
                  Get(key) => /\ Absent(key)
                              /\ hits' = hits
                              /\ misses' = misses + 1
                              /\ Stats'.Size = 0]_vars

\* a Clear after a Get, and after the Clear a Get that found nothing
ClearLeavesNothingWitness ==
    /\ touched = <<>>
    /\ gets.all = 2
    /\ gets.since = 1
    /\ Stats = [Hits |-> 0, Misses |-> 1, HitRatio |-> <<0, 1>>, Size |-> 0]

Keyed == \A c \in Procs : req[c].pc = "keyed"

\* C15: for every amount A and every two sequences S1 and S2 that are
\* permutations of the same pack sizes, GenerateCacheKey(A, S1) =
\* GenerateCacheKey(A, S2).
KeyIgnoresOrder ==
    (/\ Keyed
     /\ req[1].amount = req[2].amount
     /\ Len(req[1].packSizes) = Len(req[2].packSizes)
     /\ Range(req[1].packSizes) = Range(req[2].packSizes))
        => req[1].key = req[2].key

\* C16: for slices of distinct positive sizes, two calls whose amounts differ
\* or whose sizes differ as sets get different keys.
KeysDistinguish ==
    (/\ Keyed
     /\ \/ req[1].amount # req[2].amount
        \/ Range(req[1].packSizes) # Range(req[2].packSizes))
        => req[1].key # req[2].key

\* the sizes 1 and 2 against the one size 12, and an amount against another
KeysDistinguishWitness ==
    /\ Keyed
    /\ req[1].amount = 1 /\ req[1].packSizes = <<1, 2>>
    /\ req[2].amount = 2 /\ req[2].packSizes = <<12>>
    /\ req[1].key = <<"c", "a", "l", "c", ":", "1", ":", "1", ",", "2">>
    /\ req[2].key = <<"c", "a", "l", "c", ":", "2", ":", "1", "2">>

\* the responses i and i+1 are both results of calculate for the same amount
SamePair(i) ==
    /\ replies[i].kind = "calculate" /\ replies[i + 1].kind = "calculate"
    /\ replies[i].status = 200 /\ replies[i + 1].status = 200
    /\ replies[i].arg = replies[i + 1].arg

\* C17: with the pack sizes fixed, no change of the store and no entry expiring
\* between them, two successive calculate(A) requests return identical bodies
\* (amount, total_items, total_packs, packs); the first, on a cache without
\* the key, records one miss, and the second records exactly one hit and no
\* further miss.
RepeatIsServedFromCache ==
    \A i \in 1..(Len(replies) - 1) :
        SamePair(i) =>
            /\ replies[i + 1].body = replies[i].body
            /\ (~replies[i].cached /\ replies[i + 1].at <= replies[i].at + TTL) =>
                   /\ replies[i].misses = 1 /\ replies[i].hits = 0
                   /\ replies[i + 1].cached
                   /\ replies[i + 1].hits = 1 /\ replies[i + 1].misses = 0

\* a result of two packs computed, and an hour later served again from the cache
RepeatIsServedFromCacheWitness ==
    /\ Len(replies) >= 2
    /\ SamePair(1)
    /\ ~replies[1].cached
    /\ replies[1].body.total_packs = 2
    /\ replies[2].at = replies[1].at + TTL
    /\ replies[2].cached

\* the response reports an add or a delete that changed the store
Changed(r) ==
    \/ r.kind = "add" /\ r.status = 201
    \/ r.kind = "delete" /\ r.status = 200

\* the bodies the solver's result for an amount and a set of sizes gives
Solved(amt, sizes) ==
    {ResultBody(amt, r.total, r.totalPacks, r.packs) :
         r \in CalculateWithDetails(NewCalculator(GetPackSizesAsSlice(sizes)), amt)}

Mutating == \E c \in Procs : req[c].kind \in {"add", "delete"} /\ req[c].pc # "idle"

\* C19: in every interleaving of calculate requests with add and delete
\* requests, whenever no add or delete is in progress, the pack sizes in the
\* key of every cache entry are the store's current set of sizes: a calculate
\* that read the sizes before a change leaves no entry for them after the
\* Clear of that change.
EntriesMatchStore ==
    ~Mutating =>
        \A key \in DOMAIN items :
            \E amt \in 1..MaxOrder : key = GenerateCacheKey(amt, GetPackSizesAsSlice(store))

\* the step sends a response to a calculate request
Answered == Len(replies') = Len(replies) + 1 /\ replies'[Len(replies')].kind = "calculate"

\* C20: calculate rejects an amount below 1 as an invalid amount and an amount
\* above 10000000 as too large, both with status 400 and before the pack sizes
\* are read, leaving the cache entries, the counters and the orders table as
\* they were; the amounts 1 and 10000000 are not rejected for their amount.
AmountValidated ==
    [][Answered =>
           LET r == replies'[Len(replies')]
           IN /\ r.arg < 1 =>
                     /\ r.status = 400
                     /\ r.body = ErrorBody("Amount must be at least 1")
              /\ r.arg > 10000000 =>
                     /\ r.status = 400
                     /\ r.body = ErrorBody("Amount too large")
              /\ (r.arg < 1 \/ r.arg > 10000000) =>
                     /\ req' = req
                     /\ UNCHANGED <<items, nodes, head, tail, hits, misses, journal, store>>
              /\ (r.arg >= 1 /\ r.arg <= 10000000) =>
                     /\ r.body # ErrorBody("Amount must be at least 1")
                     /\ r.body # ErrorBody("Amount too large")
                     /\ \E c \in Procs : req[c].amount = r.arg /\ req[c].pc # "idle"]_vars

\* 10000001 refused, 1 answered with a result, and 10000000 past the validation
AmountValidatedWitness ==
    /\ \E i \in DOMAIN replies :
           replies[i].kind = "calculate" /\ replies[i].arg = 10000001
               /\ replies[i].status = 400
    /\ \E i \in DOMAIN replies :
           replies[i].kind = "calculate" /\ replies[i].arg = 1 /\ replies[i].status = 200
    /\ \E c \in Procs : req[c].amount = 10000000 /\ req[c].pc = "solve"

\* C21: when the pack-size table is empty, a calculate request with a valid
\* amount is answered 400 "No pack sizes configured" by its first step after
\* the validation, and that step neither consults the cache (entries, LRU
\* chain, hit and miss counters, Get calls unchanged) nor runs the solver nor
\* inserts an order; the solver is never run on an empty slice of sizes.
NoConfigRefused ==
    [][\A c \in Procs :
           /\ (req[c].pc = "read" /\ store = {} /\ req'[c] # req[c]) =>
                  /\ req'[c] = NoRequest
                  /\ Len(replies') = Len(replies) + 1
                  /\ LET r == replies'[Len(replies')]
                     IN /\ r.kind = "calculate" /\ r.arg = req[c].amount
                        /\ r.status = 400
                        /\ r.body = ErrorBody("No pack sizes configured")
                  /\ UNCHANGED <<items, nodes, head, tail, hits, misses, gets, touched,
                                 journal, store>>
           /\ req'[c].pc \in {"get", "solve", "set", "save"} => req'[c].packSizes # <<>>]_vars

\* an amount within the limits refused for the empty table while the cache
\* holds an entry and has counted a miss
NoConfigRefusedWitness ==
    /\ Len(replies) > 0
    /\ LET r == replies[Len(replies)]
       IN /\ r.kind = "calculate" /\ r.arg >= 1 /\ r.arg <= maxAmount
          /\ r.status = 400 /\ r.body = ErrorBody("No pack sizes configured")
    /\ store = {}
    /\ DOMAIN items # {}
    /\ misses > 0

\* C22: the step of calculate that saves the order responds 200 with the
\* result that was computed, whether SaveOrder inserted the order or failed
\* and left the orders table as it was, and in both cases the cache keeps the
\* entry of the request with the computed packs and total.
SaveFailureHidden ==
    [][\A c \in Procs :
           (req[c].pc = "save" /\ req'[c] # req[c]) =>
               /\ journal' \in {journal, Append(journal, Order(req[c]))}
               /\ Len(replies') = Len(replies) + 1
               /\ LET r == replies'[Len(replies')]
                  IN /\ r.kind = "calculate" /\ r.arg = req[c].amount
                     /\ r.status = 200
                     /\ r.body = ResultBody(req[c].amount, req[c].total,
                                            req[c].totalPacks, req[c].packs)
               /\ UNCHANGED <<items, nodes, head, tail, hits, misses, store>>
               /\ req[c].key \in DOMAIN items'
               /\ items'[req[c].key].packs = req[c].packs
               /\ items'[req[c].key].total = req[c].total]_vars

\* a computed result answered with 200 and cached although no order was saved
SaveFailureHiddenWitness ==
    /\ Len(replies) > 0
    /\ LET r == replies[Len(replies)]
       IN /\ r.kind = "calculate" /\ r.status = 200 /\ ~r.cached
          /\ \E key \in DOMAIN items : items[key].packs = r.body.packs
    /\ journal = <<>>

\* the goroutine is in Get and its lookup found the item
Found(t) == thr[t].pc \in {"found", "promote"}

\* the goroutines are both in Get, with the same key
Together(t, u) ==
    t # u /\ thr[t].pc # "idle" /\ thr[u].pc # "idle" /\ thr[t].key = thr[u].key

\* C23 as stated: two Get calls in progress at once on the same key, with no
\* Set or Clear between their lookups, have the same outcome (hit or miss) and
\* on a hit the same packs and total.
ReadersAgree ==
    \A t, u \in Procs :
        Together(t, u) =>
            /\ Found(t) = Found(u)
            /\ thr[t].packs = thr[u].packs
            /\ thr[t].total = thr[u].total

\* C23, amended: two Get calls in progress at once on the same key, with no
\* Set or Clear between their lookups, return the same packs and total when
\* both hit; one hits and the other misses only when the item's expiration
\* instant lies between the two lookups: the hit looked up at or before it,
\* the miss after it.
ReadersAgreeUntilExpiry ==
    \A t, u \in Procs :
        Together(t, u) =>
            /\ (Found(t) /\ Found(u)) =>
                   thr[t].packs = thr[u].packs /\ thr[t].total = thr[u].total
            /\ (Found(t) /\ ~Found(u)) =>
                   /\ thr[t].key \in DOMAIN items
                   /\ thr[t].at <= items[thr[t].key].expiration
                   /\ items[thr[t].key].expiration < thr[u].at

\* two Get calls in progress on one key, the first a hit with the stored
\* result, the second a miss after the clock has passed the expiration
ReadersAgreeUntilExpiryWitness ==
    \E t, u \in Procs :
        /\ Together(t, u)
        /\ Found(t) /\ ~Found(u)
        /\ thr[t].packs = items[thr[t].key].packs
        /\ thr[t].at < thr[u].at

\* C24: a Set stores the expiration now + ttl, also on a key that is present;
\* a Get finds an entry exactly while now <= its expiration and returns the
\* packs and total stored; a Get on an entry past its expiration counts one
\* miss, returns not-found and neither promotes nor removes the entry, which
\* stays in the map and in the size; no call but a Set of the key changes the
\* expiration of an entry that stays.
ExpiryHonoured ==
    [][/\ \A key \in EntryKeys, packs \in Payloads, ttl \in TTLs :
              (/\ touched' # <<>> /\ touched'[1] = key
               /\ key \in DOMAIN items' /\ items'[key].packs = packs
               /\ Set(key, packs, packs, ttl))
              => items'[key].expiration = now + ttl
       /\ \A key \in EntryKeys :
              (caller'.got.key = key /\ Get(key)) =>
                  LET ret == caller'.got.ret
                  IN /\ caller'.got # caller.got \/ gets'.all = gets.all + 1
                     /\ IF key \in DOMAIN items /\ now <= items[key].expiration
                        THEN /\ ret = [packs |-> items[key].packs,
                                       total |-> items[key].total, found |-> TRUE]
                             /\ hits' = hits + 1 /\ misses' = misses
                        ELSE /\ ret = [packs |-> Nil, total |-> 0, found |-> FALSE]
                             /\ hits' = hits /\ misses' = misses + 1
                             /\ UNCHANGED <<items, nodes, head, tail>>
                             /\ Size' = Size /\ ChainKeys' = ChainKeys
       /\ \A key \in DOMAIN items \cap DOMAIN items' :
              items'[key].expiration # items[key].expiration =>
                  \E packs \in {items'[key].packs}, ttl \in TTLs :
                      Set(key, packs, packs, ttl)]_vars

\* a Get found the entry at its expiration instant, and an hour later a Get
\* of the same key returned not-found, the entry still in the map
ExpiryHonouredWitness ==
    /\ hits = 1 /\ misses = 1
    /\ ~caller.got.ret.found
    /\ caller.got.key \in DOMAIN items
    /\ now = items[caller.got.key].expiration + 1
    /\ Size = 1

\* the entries of the map a Get of the key returns
Payload(key) == caller.maps[items[key].packs]

\* C25: the cache does not share its entries by reference: a write to a map
\* after it was handed to Set, or to the map a Get returned, leaves the
\* payload that later Get calls return as it was; the payload of an entry
\* changes only by a Set of its key.
EntriesNotShared ==
    [][\A key \in DOMAIN items \cap DOMAIN items' :
           items'[key] = items[key] => Payload(key)' = Payload(key)]_vars

\* the instants at which requests of the address were let through, in order
Admitted(ip) == SelectSeq(limiter.log, LAMBDA e : e.ip = ip /\ e.status = "next")

\* C26: for every client address, in every interleaving of its requests with
\* those of other clients and with the cleanup, the requests let through in
\* any interval of length D number at most burst + floor(D / rate); every
\* other request is answered 429; every visitor's tokens stay within
\* 0..burst.
RateBounded ==
    /\ \A ip \in Ips :
           LET passed == Admitted(ip)
           IN \A i, j \in DOMAIN passed :
                  i <= j =>
                      j - i + 1 <= limiter.burst
                                       + ((passed[j].at - passed[i].at) \div limiter.rate)
    /\ \A i \in DOMAIN limiter.log : limiter.log[i].status \in {"next", "429"}
    /\ \A v \in DOMAIN limiter.objects :
           limiter.objects[v].tokens >= 0 /\ limiter.objects[v].tokens <= limiter.burst

\* the step sends the response to the add request of goroutine c
AddAnswered(c) ==
    /\ req[c].kind = "add" /\ req'[c] = NoRequest
    /\ Len(replies') = Len(replies) + 1

\* C27: an add request for a size that is in the store is answered 409
\* "Pack size already exists" and its step changes neither the store nor the
\* cache (entries, chain, counters); of the add requests for one new size that
\* run at once, the one that inserts is answered 201 and every other one 409;
\* no add request for a valid size gets another answer.
DuplicateRefused ==
    [][\A c \in Procs :
           AddAnswered(c) =>
               LET r == replies'[Len(replies')]
               IN /\ r.status \in {201, 409}
                  /\ (req[c].pc \in {"exists", "insert"} /\ req[c].size \in store) =>
                         /\ r.status = 409
                         /\ r.body = ErrorBody("Pack size already exists")
                         /\ UNCHANGED <<store, items, nodes, head, tail, hits, misses>>]_vars

\* C28: a delete request for a size that is not in the store is answered 404
\* by its one step, which leaves the store as it was and does not clear the
\* cache: entries, chain and hit and miss counters are kept; and a delete is
\* answered 404 in no other case.
UnknownDeleteRefused ==
    [][/\ \A c \in Procs, size \in SentSizes :
              (size \notin store /\ DeleteBegin(c, size)) =>
                  /\ req' = req
                  /\ Len(replies') = Len(replies) + 1
                  /\ LET r == replies'[Len(replies')]
                     IN /\ r.kind = "delete" /\ r.arg = size
                        /\ r.status = 404
                        /\ r.body = ErrorBody("pack size not found")
                  /\ UNCHANGED <<store, items, nodes, head, tail, hits, misses, touched,
                                 journal>>
       /\ (/\ Len(replies') = Len(replies) + 1
           /\ replies'[Len(replies')].kind = "delete")
          => (replies'[Len(replies')].status = 404
                  <=> (req' = req /\ replies'[Len(replies')].arg \notin store))]_vars

\* a delete of a size the store does not hold refused while the cache holds
\* an entry and has counted a miss, both still there
UnknownDeleteRefusedWitness ==
    /\ Len(replies) > 1
    /\ LET r == replies[Len(replies)]
       IN /\ r.kind = "delete" /\ r.status = 404
          /\ r.arg \notin store
    /\ store # {}
    /\ DOMAIN items # {}
    /\ misses = 1
    /\ Quiet

\* C29: GetOrders queries the orders table with limit 100 when the request
\* has no limit parameter or one that is not a number or not positive, and
\* for every limit N a request names, the limit of the query is at most 1000.
OrdersLimitCapped ==
    \A c \in Procs :
        listing[c].pc = "queried" =>
            /\ (\/ listing[c].limitStr \in {<<>>, <<"a", "b", "c">>, <<"1", "0", "x">>, <<"-">>}
                \/ \E n \in SentLimits : n <= 0 /\ listing[c].limitStr = Itoa(n))
               => listing[c].limit = 100
            /\ listing[c].limit <= 1000

\* C30: a Set of a key that is present, by one client: the entry gets the new
\* packs and total and the expiration now + ttl and becomes the most recently
\* used; the keys of the map are the same, none evicted even at capacity;
\* every other entry keeps its payload and expiration, and the other keys
\* keep their order in the chain.
OverwriteInPlace ==
    [][\A key \in Keys, packs \in Payloads, ttl \in TTLs :
           (/\ key \in DOMAIN items
            /\ touched'[1] = key /\ hits' = hits
            /\ key \in DOMAIN items' /\ items'[key].packs = packs
            /\ Set(key, packs, packs, ttl))
           => /\ items'[key].packs = packs /\ items'[key].total = packs
              /\ items'[key].expiration = now + ttl
              /\ head' = items'[key].node
              /\ ChainKeys'[1] = key
              /\ DOMAIN items' = DOMAIN items
              /\ Size' = Size
              /\ \A other \in DOMAIN items \ {key} : items'[other] = items[other]
              /\ SelectSeq(ChainKeys', LAMBDA k : k # key)
                     = SelectSeq(ChainKeys, LAMBDA k : k # key)
              /\ Len(ChainKeys') = Size]_vars

\* a cache of capacity three holding three keys, in which a Get returned one
\* result for a key that now has another and is the most recently used, while
\* the other two keys are behind it
OverwriteInPlaceWitness ==
    /\ maxSize = NumKeys /\ Size = NumKeys
    /\ caller.got.ret.found
    /\ caller.got.key \in DOMAIN items
    /\ items[caller.got.key].packs # caller.got.ret.packs
    /\ ChainKeys[1] = caller.got.key
    /\ Len(ChainKeys) = NumKeys

\* the slices with the members of s: its permutations, and s with members
\* repeated or repetitions dropped
Variants(s) == {s2 \in PackSlices : Range(s2) = Range(s)}

\* what the call made on the slice s2 returns, in the shape of res
Answers(s2, detailed) ==
    IF detailed THEN CalculateWithDetails(NewCalculator(s2), amount)
    ELSE LET r == Calculate(NewCalculator(s2), amount)
         IN {[packs |-> r.packs, total |-> r.total, totalPacks |-> 0,
              err |-> r.err, rem |-> r.rem]}

\* C31: for A >= 1 the result (M, T, P) of NewCalculator(S).Calculate(A) is the
\* same for every permutation of S and for S with members duplicated, and
\* NewCalculator leaves the caller's slice as it was.
InputCanonical ==
    [][/\ DoNewCalculator => input' = input
       /\ (Returned' /\ amount >= 1) =>
              \A s2 \in Variants(input) : Answers(s2, spc' = "detailed") = {res'}]_vars

\* a solution returned for a slice that is out of order and names a size twice
InputCanonicalWitness ==
    /\ spc = "detailed" /\ res.err = ErrNone /\ amount >= 1
    /\ Len(input) = 3 /\ input[1] > input[2] /\ input[1] = input[3]
    /\ Cardinality(DOMAIN res.packs) = 2

\* the response a step has just added, of the request in service at c
Replied(c) ==
    /\ req[c].pc # "idle" /\ req'[c].pc = "idle"
    /\ Len(replies') = Len(replies) + 1

NoOpGet(key) == [packs |-> Nil, total |-> 0, found |-> FALSE]

\* what CalculatePacks with a NoOpCache answers to the amount amt when it reads
\* packSizes from the store: the checks of the request, the lookup that finds
\* nothing, the solver (Set does nothing, the order saved or not)
CalculatePacksNoOp(amt, packSizes) ==
    IF AmountTooSmall(amt)
    THEN {[status |-> 400, body |-> ErrorBody("Amount must be at least 1")]}
    ELSE IF AmountTooLarge(amt)
    THEN {[status |-> 400, body |-> ErrorBody("Amount too large")]}
    ELSE IF NoConfig(packSizes)
    THEN {[status |-> 400, body |-> ErrorBody("No pack sizes configured")]}
    ELSE IF NoOpGet(GenerateCacheKey(amt, packSizes)).found THEN {}
    ELSE {IF r.err # ErrNone
          THEN [status |-> 500, body |-> ErrorBody(r.err)]
          ELSE [status |-> 200,
                body |-> ResultBody(amt, r.total, r.totalPacks, r.packs)] :
          r \in CalculateWithDetails(NewCalculator(packSizes), amt)}

\* the pack sizes the request answered in this step has read from the store
SizesRead ==
    LET served == {c \in Procs : req[c].pc # "idle" /\ req'[c].pc = "idle"}
    IN IF served = {} THEN <<>>
       ELSE LET c == CHOOSE d \in served : TRUE
            IN IF req[c].pc = "read" THEN GetPackSizesAsSlice(store)
               ELSE req[c].packSizes

\* the amounts and slices a key may have been made from
KeyedBy(key) ==
    {p \in (1..MaxOrder) \X {GetPackSizesAsSlice(S) : S \in SUBSET (1..MaxSize)} :
         key = GenerateCacheKey(p[1], p[2])}

\* C33: every calculate response of the handler with the MemoryCache, under every
\* interleaving of calculate, add and delete requests, is a response the handler
\* with a NoOpCache gives to the same request on the pack sizes that request
\* read; every entry of the cache is the solution of the one amount and pack
\* sizes its key names, so a hit returns no solution of other pack sizes.
CacheTransparent ==
    [][/\ Answered =>
              [status |-> replies'[Len(replies')].status,
               body |-> replies'[Len(replies')].body]
                  \in CalculatePacksNoOp(replies'[Len(replies')].arg, SizesRead)
       /\ items' # items =>
              \A key \in DOMAIN items' :
                  /\ Cardinality(KeyedBy(key)) = 1
                  /\ \A p \in KeyedBy(key) :
                         \E r \in CalculateWithDetails(NewCalculator(p[2]), p[1]) :
                             /\ r.err = ErrNone
                             /\ items'[key].packs = r.packs
                             /\ items'[key].total = r.total]_vars

\* a hit answered after a delete has changed the store the request had read,
\* the deleting request not yet at its Clear
CacheTransparentWitness ==
    /\ Len(replies) >= 2
    /\ replies[Len(replies)].kind = "calculate"
    /\ replies[Len(replies)].status = 200
    /\ replies[Len(replies)].cached
    /\ Cardinality(DOMAIN replies[Len(replies)].body.packs) >= 1
    /\ \E s \in DOMAIN replies[Len(replies)].body.packs : s \notin store
    /\ \E c \in Procs : req[c].pc = "clear" /\ req[c].kind = "delete"

\* the responses so far answer calculate requests for one amount, sent one
\* after the other on one store, the last no later than the expiry of what the
\* first stored
SameRequestRepeated(rs) ==
    /\ Len(rs) >= 1
    /\ \A i \in DOMAIN rs :
           /\ rs[i].kind = "calculate" /\ rs[i].status = 200
           /\ rs[i].arg = rs[1].arg /\ rs[i].sizes = rs[1].sizes
           /\ rs[i].at <= rs[1].at + TTL

\* C34: SaveOrder is attempted on the miss path only: the step that answers from
\* the cache leaves the journal alone, a response computed by the solver is
\* sent by the one step that attempts the append (which adds one order or
\* none), and N calculate requests for the same amount, one after the other,
\* with the store unchanged and nothing expired or evicted, make one attempt.
JournalOnMissOnly ==
    [][/\ (Answered /\ replies'[Len(replies')].cached) =>
              /\ UNCHANGED journal
              /\ \E c \in Procs : req[c].pc = "get" /\ req'[c].pc = "idle"
       /\ (Answered /\ replies'[Len(replies')].status = 200
              /\ ~replies'[Len(replies')].cached) =>
              /\ \E c \in Procs : req[c].pc = "save" /\ req'[c].pc = "idle"
              /\ \/ UNCHANGED journal
                 \/ /\ Len(journal') = Len(journal) + 1
                    /\ SubSeq(journal', 1, Len(journal)) = journal
                    /\ journal'[Len(journal')].packs = replies'[Len(replies')].body.packs
       /\ ~UNCHANGED journal => \E c \in Procs : req[c].pc = "save"
       /\ \A c \in Procs : req'[c].pc = "save" => req[c].pc \in {"set", "save"}
       /\ SameRequestRepeated(replies') =>
              /\ ~replies'[1].cached
              /\ \A i \in 2..Len(replies') : replies'[i].cached
              /\ Len(journal') <= 1]_vars

\* the same amount asked for again at the very end of the entry's hour and
\* answered from the cache, the one order of the first request in the journal
JournalOnMissOnlyWitness ==
    /\ Len(replies) = MaxGets
    /\ SameRequestRepeated(replies)
    /\ \A i \in 2..MaxGets : replies[i].cached
    /\ replies[MaxGets].at = replies[1].at + TTL
    /\ Cardinality(DOMAIN replies[1].body.packs) = 2
    /\ Len(journal) = 1

\* C35: under fair scheduling every Get, Set, Clear and Stats call made while
\* others run returns; a goroutine that holds the lock of the cache, shared or
\* exclusive, is never waiting for a lock, and Get never holds the shared and
\* the exclusive lock at once.
CacheCallsReturn ==
    /\ [](\A t \in Procs :
              /\ (t \in mu.readers \/ mu.writer = t) =>
                     /\ t \notin mu.waiting
                     /\ Position(t) \notin {"get.rlock", "stats.rlock"}
              /\ ~(t \in mu.readers /\ mu.writer = t)
              /\ mu.writer # Nil => mu.readers = {})
    /\ \A t \in Procs : (Position(t) # "idle") ~> (Position(t) = "idle")

\* a Get waits for the exclusive lock to promote what it found while a Stats
\* call holds the shared lock
CacheCallsReturnWitness ==
    /\ Position(1) = "get.lock" /\ 1 \in mu.waiting
    /\ Position(2) = "stats.read" /\ 2 \in mu.readers

\* the least number of packs over the sizes of the input that sum to t, and the
\* mark of dp when no combination does
MinPacks(t) ==
    LET ms == Multisets(input, t)
    IN IF ms = {} THEN MaxInt32
       ELSE CHOOSE n \in {SumSeq(c) : c \in ms} : \A c \in ms : n <= SumSeq(c)

\* the largest size s with packs[t - s] + 1 = packs[t]
LargestStep(t) ==
    LET steps == {s \in Range(input) : /\ s <= t
                                       /\ MinPacks(t - s) # MaxInt32
                                       /\ MinPacks(t - s) + 1 = MinPacks(t)}
    IN CHOOSE s \in steps : \A o \in steps : o <= s

\* the multiset got from t by taking LargestStep until 0 is left
RECURSIVE LargestFirst(_)
LargestFirst(t) ==
    IF t = 0 THEN NilMap
    ELSE LET s == LargestStep(t)
             m == LargestFirst(t - s)
         IN [k \in DOMAIN m \cup {s} |->
                (IF k \in DOMAIN m THEN m[k] ELSE 0) + (IF k = s THEN 1 ELSE 0)]

\* the pack counts of the combinations that reach the returned T with P packs
Optimal ==
    {c \in Multisets(input, res.total) : SumSeq(c) = res.totalPacks}

\* C36: the multiset returned is the one got by starting at t = T and taking,
\* again and again, the largest pack size s with packs[t - s] + 1 = packs[t],
\* until t = 0; this is also so when several multisets reach T with P packs.
LargestFirstTieBreak ==
    (Returned /\ Accepted /\ res.err = ErrNone) => res.packs = LargestFirst(res.total)

\* four sizes, two combinations of three packs for T, and the one returned is
\* not the one with the smallest size
LargestFirstTieBreakWitness ==
    /\ spc = "detailed" /\ Accepted /\ res.err = ErrNone
    /\ Len(input) = TieLen
    /\ res.totalPacks = 3
    /\ Cardinality(Optimal) >= 2
    /\ \E c \in Optimal : c[1] >= 1
    /\ input[1] \notin DOMAIN res.packs

\* C37: the capacity bound at capacity 0: a MemoryCache built with max_size = 0
\* holds at most max_size entries after any sequence of Set calls, i.e. none.
ZeroCapacityStaysEmpty ==
    maxSize = 0 => (Cardinality(DOMAIN items) <= maxSize /\ DOMAIN items = {})

\* the run has allocated its tables and finished the relaxation
Relaxed(p) ==
    /\ run[p].pc \in {"scan", "back", "count", "done"}
    /\ amount >= 1 /\ input # <<>>

====
